---- MODULE Spec2Model ----
(***************************************************************************)
(* Model of the bare-metal controller: the Server reconciler               *)
(* (internal/controller/server_controller.go) and the cluster-autoscaler   *)
(* provider adapter (external/baremetalprovider.go), both working on the   *)
(* Server records of api/v1/server_types.go.                               *)
(*                                                                         *)
(* Strings built by fmt.Errorf / fmt.Sprintf are modelled as sequences of  *)
(* their pieces, the nil error and the empty message as the empty          *)
(* sequence.  A nil control block is a record whose present field is       *)
(* FALSE, a nil failingSince is NilTime.                                   *)
(***************************************************************************)
EXTENDS Integers, Sequences, FiniteSets, TLC

\* ------------------------------------------------------------------ bounds
MaxTime == 1        \* metav1.Now() returns a time in 0..MaxTime
MaxDelta == 3       \* largest delta of a resize request
MaxNodes == 2       \* longest node list of a delete request

\* --------------------------------------------------------------- constants
FailureThreshold == 3
RequeueSeconds == 60
NilTime == -1

PowerStateOn == "on"
PowerStateOff == "off"
ControlTypeWOL == "wol"
ControlTypeIPMI == "ipmi"

StatusPending == "pending"
StatusActive == "active"
StatusOffline == "offline"
StatusDraining == "draining"
StatusFailed == "failed"

defaultNodeGroupID == "bare-metal-pool"

NoErr == <<>>
BackendErr == <<"backend unavailable">>

\* ----------------------------------------------------------------- records
\* The records of the store, in the order List returns them.
Order == <<"m1", "m2">>
Machines == {Order[i] : i \in 1..Len(Order)}
\* Identifiers a request can name: the records and one that has no record.
Ids == Machines \cup {"ghost"}

NoWOL == [present |-> FALSE, Address |-> "", MACAddress |-> "", Port |-> 0, User |-> ""]
NoIPMI == [present |-> FALSE, Address |-> "", Username |-> "", Password |-> ""]
FullWOL == [present |-> TRUE, Address |-> "192.168.1.100", MACAddress |-> "00:11:22:33:44:55", Port |-> 9, User |-> "admin"]
FullIPMI == [present |-> TRUE, Address |-> "192.168.1.101", Username |-> "admin", Password |-> "password"]

\* The (Type, Control) parts of ServerSpec a record is created with.
Controls ==
  { [Type |-> ControlTypeWOL, WOL |-> FullWOL, IPMI |-> NoIPMI],
    [Type |-> ControlTypeWOL, WOL |-> [FullWOL EXCEPT !.MACAddress = ""], IPMI |-> NoIPMI],
    [Type |-> ControlTypeWOL, WOL |-> [FullWOL EXCEPT !.Address = ""], IPMI |-> NoIPMI],
    [Type |-> ControlTypeWOL, WOL |-> NoWOL, IPMI |-> NoIPMI],
    [Type |-> ControlTypeIPMI, WOL |-> NoWOL, IPMI |-> FullIPMI],
    [Type |-> ControlTypeIPMI, WOL |-> NoWOL, IPMI |-> [FullIPMI EXCEPT !.Password = ""]],
    [Type |-> ControlTypeIPMI, WOL |-> NoWOL, IPMI |-> NoIPMI],
    [Type |-> "", WOL |-> FullWOL, IPMI |-> NoIPMI] }

ServerSpec(ps, c) == [PowerState |-> ps, Type |-> c.Type, Control |-> [WOL |-> c.WOL, IPMI |-> c.IPMI]]

\* The zero ServerStatus of a newly created record.
ServerStatus == [Status |-> "", Message |-> <<>>, FailingSince |-> NilTime, FailureCount |-> 0]

\* --------------------------------------------------------------- variables
VARIABLES
  store,   \* store[m]: the Server record m, [Spec, Status]
  runs,    \* history: the unreachable-while-pending run of each record
  last,    \* history: what the latest handler invocation read, did, returned
  version, \* version[m]: metadata.resourceVersion of record m
  rpc,     \* rpc[p]: the adapter call the server goroutine p is serving
  eng,     \* the Reconcile invocation in progress
  tally,   \* history: the target size at the start, the flips made by deletes
  machine  \* the machine behind the first record: whether it answers the probe

\* The variables of the specifications in which handlers interleave or the
\* machine is part of the state; the other specifications leave them unused.
extra == <<version, rpc, eng, tally, machine>>

Unused ==
  /\ version = <<>>
  /\ rpc = <<>>
  /\ eng = <<>>
  /\ tally = <<>>
  /\ machine = <<>>

vars == <<store, runs, last, version, rpc, eng, tally, machine>>

\* ------------------------------------------------------ power capabilities
\* One call of a capability: Wake(mac, port), Shutdown(host, user),
\* PowerOn/PowerOff(address, username, password).
Call(fn, host, mac, port, user, password) ==
  [fn |-> fn, host |-> host, mac |-> mac, port |-> port, user |-> user, password |-> password]

\* powerOn whose WOL branch does not look at the MAC before calling Wake.
powerOn_noMACCheck(server, backend) ==
  LET wol == server.Spec.Control.WOL
      ipmi == server.Spec.Control.IPMI
  IN CASE server.Spec.Type = ControlTypeWOL ->
            IF ~wol.present THEN [err |-> <<"WOL config is required">>, calls |-> <<>>]
            ELSE [err |-> backend, calls |-> <<Call("Wake", "", wol.MACAddress, wol.Port, "", "")>>]
       [] server.Spec.Type = ControlTypeIPMI ->
            IF ~ipmi.present THEN [err |-> <<"IPMI config is required">>, calls |-> <<>>]
            ELSE IF ipmi.Address = "" THEN [err |-> <<"IPMI address is required">>, calls |-> <<>>]
            ELSE IF ipmi.Username = "" \/ ipmi.Password = ""
              THEN [err |-> <<"IPMI username and password are required">>, calls |-> <<>>]
            ELSE [err |-> backend, calls |-> <<Call("PowerOn", ipmi.Address, "", 0, ipmi.Username, ipmi.Password)>>]
       [] OTHER -> [err |-> <<"unknown control type: ", server.Spec.Type>>, calls |-> <<>>]

\* powerOn whose WOL branch hands Wake the address in place of the MAC.
powerOn_addressAsMAC(server, backend) ==
  LET wol == server.Spec.Control.WOL
      ipmi == server.Spec.Control.IPMI
  IN CASE server.Spec.Type = ControlTypeWOL ->
            IF ~wol.present THEN [err |-> <<"WOL config is required">>, calls |-> <<>>]
            ELSE IF wol.MACAddress = "" THEN [err |-> <<"WOL MAC address is required">>, calls |-> <<>>]
            ELSE [err |-> backend, calls |-> <<Call("Wake", "", wol.Address, wol.Port, "", "")>>]
       [] server.Spec.Type = ControlTypeIPMI ->
            IF ~ipmi.present THEN [err |-> <<"IPMI config is required">>, calls |-> <<>>]
            ELSE IF ipmi.Address = "" THEN [err |-> <<"IPMI address is required">>, calls |-> <<>>]
            ELSE IF ipmi.Username = "" \/ ipmi.Password = ""
              THEN [err |-> <<"IPMI username and password are required">>, calls |-> <<>>]
            ELSE [err |-> backend, calls |-> <<Call("PowerOn", ipmi.Address, "", 0, ipmi.Username, ipmi.Password)>>]
       [] OTHER -> [err |-> <<"unknown control type: ", server.Spec.Type>>, calls |-> <<>>]

powerOn(server, backend) ==
  LET wol == server.Spec.Control.WOL
      ipmi == server.Spec.Control.IPMI
  IN CASE server.Spec.Type = ControlTypeWOL ->
            IF ~wol.present THEN [err |-> <<"WOL config is required">>, calls |-> <<>>]
            ELSE IF wol.MACAddress = "" THEN [err |-> <<"WOL MAC address is required">>, calls |-> <<>>]
            ELSE [err |-> backend, calls |-> <<Call("Wake", "", wol.MACAddress, wol.Port, "", "")>>]
       [] server.Spec.Type = ControlTypeIPMI ->
            IF ~ipmi.present THEN [err |-> <<"IPMI config is required">>, calls |-> <<>>]
            ELSE IF ipmi.Address = "" THEN [err |-> <<"IPMI address is required">>, calls |-> <<>>]
            ELSE IF ipmi.Username = "" \/ ipmi.Password = ""
              THEN [err |-> <<"IPMI username and password are required">>, calls |-> <<>>]
            ELSE [err |-> backend, calls |-> <<Call("PowerOn", ipmi.Address, "", 0, ipmi.Username, ipmi.Password)>>]
       [] OTHER -> [err |-> <<"unknown control type: ", server.Spec.Type>>, calls |-> <<>>]

\* getServerAddress that takes the address of whichever block is present,
\* whatever the control type says.
getServerAddress_anyBlock(server) ==
  CASE server.Spec.Control.WOL.present -> server.Spec.Control.WOL.Address
    [] server.Spec.Control.IPMI.present -> server.Spec.Control.IPMI.Address
    [] OTHER -> ""

getServerAddress(server) ==
  CASE server.Spec.Type = ControlTypeWOL /\ server.Spec.Control.WOL.present -> server.Spec.Control.WOL.Address
    [] server.Spec.Type = ControlTypeIPMI /\ server.Spec.Control.IPMI.present -> server.Spec.Control.IPMI.Address
    [] OTHER -> ""

\* powerOff whose WOL branch calls Shutdown without the configured user.
powerOff_noUser(server, backend) ==
  LET wol == server.Spec.Control.WOL
      ipmi == server.Spec.Control.IPMI
  IN CASE server.Spec.Type = ControlTypeWOL ->
            IF ~wol.present THEN [err |-> <<"WOL config is required">>, calls |-> <<>>]
            ELSE IF wol.Address = "" THEN [err |-> <<"WOL address is required">>, calls |-> <<>>]
            ELSE [err |-> backend, calls |-> <<Call("Shutdown", wol.Address, "", 0, "", "")>>]
       [] server.Spec.Type = ControlTypeIPMI ->
            IF ~ipmi.present THEN [err |-> <<"IPMI config is required">>, calls |-> <<>>]
            ELSE IF ipmi.Address = "" THEN [err |-> <<"IPMI address is required">>, calls |-> <<>>]
            ELSE IF ipmi.Username = "" \/ ipmi.Password = ""
              THEN [err |-> <<"IPMI username and password are required">>, calls |-> <<>>]
            ELSE [err |-> backend, calls |-> <<Call("PowerOff", ipmi.Address, "", 0, ipmi.Username, ipmi.Password)>>]
       [] OTHER -> [err |-> <<"unknown control type: ", server.Spec.Type>>, calls |-> <<>>]

powerOff(server, backend) ==
  LET wol == server.Spec.Control.WOL
      ipmi == server.Spec.Control.IPMI
  IN CASE server.Spec.Type = ControlTypeWOL ->
            IF ~wol.present THEN [err |-> <<"WOL config is required">>, calls |-> <<>>]
            ELSE IF wol.Address = "" THEN [err |-> <<"WOL address is required">>, calls |-> <<>>]
            ELSE [err |-> backend, calls |-> <<Call("Shutdown", wol.Address, "", 0, wol.User, "")>>]
       [] server.Spec.Type = ControlTypeIPMI ->
            IF ~ipmi.present THEN [err |-> <<"IPMI config is required">>, calls |-> <<>>]
            ELSE IF ipmi.Address = "" THEN [err |-> <<"IPMI address is required">>, calls |-> <<>>]
            ELSE IF ipmi.Username = "" \/ ipmi.Password = ""
              THEN [err |-> <<"IPMI username and password are required">>, calls |-> <<>>]
            ELSE [err |-> backend, calls |-> <<Call("PowerOff", ipmi.Address, "", 0, ipmi.Username, ipmi.Password)>>]
       [] OTHER -> [err |-> <<"unknown control type: ", server.Spec.Type>>, calls |-> <<>>]

\* --------------------------------------------------------- failure streak
\* clearFailure that resets the count and leaves failingSince.
clearFailure_keepsSince(status, newStatus) ==
  [status EXCEPT !.Status = newStatus, !.FailureCount = 0, !.Message = <<>>]

\* clearFailure that moves the phase and keeps the streak and the message.
clearFailure_statusOnly(status, newStatus) == [status EXCEPT !.Status = newStatus]

clearFailure(status, newStatus) ==
  [Status |-> newStatus, FailingSince |-> NilTime, FailureCount |-> 0, Message |-> <<>>]

\* recordFailure that stamps failingSince on every failure.
recordFailure_overwrite(status, t) ==
  [status EXCEPT !.FailingSince = t, !.FailureCount = @ + 1]

recordFailure(status, t) ==
  [status EXCEPT !.FailingSince = IF @ = NilTime THEN t ELSE @,
                 !.FailureCount = @ + 1]

\* ------------------------------------------------------------- the store
\* In the specifications below a handler runs as one step, so the store
\* accepts every update it sends; the handler goes on with the object as it
\* set it.

\* StatusUpdate as on a resource without a status subresource: the whole
\* object sent replaces the record.
StatusUpdate_whole(rec, server) == server

\* Status().Update: Server has a status subresource, so the write replaces
\* the stored status and nothing else of the record.
StatusUpdate(rec, server) == [rec EXCEPT !.Status = server.Status]


\* ClientUpdate that stores the object sent with an empty status.
ClientUpdate_dropsStatus(rec, server) == [Spec |-> server.Spec, Status |-> ServerStatus]

\* Client.Update on a resource with a status subresource: the write replaces
\* the stored spec and ignores the status of the object sent.
ClientUpdate(rec, server) == [rec EXCEPT !.Spec = server.Spec]

\* ------------------------------------------------------------- Reconcile
\* What one invocation did: the local object at return, the objects sent to
\* Status().Update in order, whether the Pinger was asked, the capability
\* calls made, and the (RequeueAfter, error) returned.
Outcome(server, writes, probed, calls, requeue, err) ==
  [server |-> server, writes |-> writes, probed |-> probed, calls |-> calls,
   requeue |-> requeue, err |-> err]

\* Reconcile, "Set default PowerState to off if not specified".
defaultPowerState(server) ==
  IF server.Spec.PowerState = "" THEN [server EXCEPT !.Spec.PowerState = PowerStateOff] ELSE server


\* isFailed without the early return on a failed record.
isFailed_never(server) == FALSE

\* Reconcile, "Ignore if failed status".
isFailed(server) == server.Status.Status = StatusFailed


\* thresholdReached without the check.
thresholdReached_never(server) == FALSE

\* thresholdReached comparing with > where the code compares with >=.
thresholdReached_exceeds(server) == server.Status.FailureCount > FailureThreshold

\* Reconcile, "Set to failed if failure count exceeds threshold".
thresholdReached(server) == server.Status.FailureCount >= FailureThreshold

\* currentState that takes the desired state for the current one.
currentState_trustsDesired(server) == server.Spec.PowerState

\* Reconcile, "Determine current power state from status".
currentState(server) ==
  IF server.Status.Status = StatusActive THEN PowerStateOn ELSE PowerStateOff

\* waitStatus that takes the record as arrived when the probe answer
\* agrees with the desired state.
waitStatus_consultsDesired(server, reachable, t) ==
  IF reachable = (server.Spec.PowerState = PowerStateOn)
  THEN clearFailure(server.Status, IF reachable THEN StatusActive ELSE StatusOffline)
  ELSE IF server.Status.Status = StatusPending
  THEN IF reachable THEN clearFailure(server.Status, StatusActive)
                    ELSE recordFailure(server.Status, t)
  ELSE IF ~reachable THEN clearFailure(server.Status, StatusOffline)
                     ELSE recordFailure(server.Status, t)

\* waitStatus whose draining branch tests the probe as the pending branch
\* does.
waitStatus_sameTest(server, reachable, t) ==
  IF reachable THEN clearFailure(server.Status,
                                 IF server.Status.Status = StatusPending
                                 THEN StatusActive ELSE StatusOffline)
  ELSE recordFailure(server.Status, t)

\* Reconcile, the branches of "switch server.Status.Status" for pending and
\* draining: the status sent to Status().Update.
waitStatus(server, reachable, t) ==
  IF server.Status.Status = StatusPending
  THEN IF reachable THEN clearFailure(server.Status, StatusActive)
                    ELSE recordFailure(server.Status, t)
  ELSE IF ~reachable THEN clearFailure(server.Status, StatusOffline)
                     ELSE recordFailure(server.Status, t)


\* waitRequeue that asks for a requeue also on arrival.
waitRequeue_always(server, reachable) == RequeueSeconds

\* waitRequeue that never asks for a requeue.
waitRequeue_none(server, reachable) == 0

\* The RequeueAfter those two branches return.
waitRequeue(server, reachable) ==
  IF server.Status.Status = StatusPending
  THEN IF reachable THEN 0 ELSE RequeueSeconds
  ELSE IF ~reachable THEN 0 ELSE RequeueSeconds


\* classify whose active branch never looks at the probe answer.
classify_keepsActive(server, reachable) ==
  CASE server.Status.Status = StatusActive -> [server |-> server, writes |-> <<>>]
    [] server.Status.Status \in {StatusOffline, ""} ->
         LET s2 == [server EXCEPT !.Status.Status =
                                     IF reachable THEN StatusActive ELSE StatusOffline]
         IN [server |-> s2, writes |-> <<s2>>]
    [] OTHER -> [server |-> server, writes |-> <<>>]

\* classify whose active branch sets offline without sending the update.
classify_noUpdate(server, reachable) ==
  CASE server.Status.Status = StatusActive ->
         IF ~reachable
         THEN [server |-> [server EXCEPT !.Status.Status = StatusOffline], writes |-> <<>>]
         ELSE [server |-> server, writes |-> <<>>]
    [] server.Status.Status \in {StatusOffline, ""} ->
         LET s2 == [server EXCEPT !.Status.Status =
                                     IF reachable THEN StatusActive ELSE StatusOffline]
         IN [server |-> s2, writes |-> <<s2>>]
    [] OTHER -> [server |-> server, writes |-> <<>>]

\* Reconcile, the branches for active and for offline or unset: the local
\* object after the branch and the objects it sent to Status().Update.
classify(server, reachable) ==
  CASE server.Status.Status = StatusActive ->
         IF ~reachable
         THEN LET s2 == [server EXCEPT !.Status.Status = StatusOffline]
              IN [server |-> s2, writes |-> <<s2>>]
         ELSE [server |-> server, writes |-> <<>>]
    [] server.Status.Status \in {StatusOffline, ""} ->
         LET s2 == [server EXCEPT !.Status.Status =
                                     IF reachable THEN StatusActive ELSE StatusOffline]
         IN [server |-> s2, writes |-> <<s2>>]
    [] OTHER -> [server |-> server, writes |-> <<>>]


\* powerAction that counts a failed power action into the failure streak
\* and asks for a retry.
powerAction_countsFailure(server, writes, backend) ==
  IF server.Spec.PowerState = currentState(server)
  THEN Outcome(server, writes, TRUE, <<>>, 0, NoErr)
  ELSE IF server.Spec.PowerState \notin {PowerStateOn, PowerStateOff}
  THEN Outcome(server, writes, TRUE, <<>>, 0, NoErr)
  ELSE LET on == server.Spec.PowerState = PowerStateOn
           act == IF on THEN powerOn(server, backend) ELSE powerOff(server, backend)
           newStatus == IF on THEN StatusPending ELSE StatusDraining
           failed == [server EXCEPT !.Status.FailureCount = @ + 1,
                                    !.Status.Message = <<"Power action failed: ">> \o act.err]
           moved == [server EXCEPT !.Status.Status = newStatus, !.Status.Message = <<>>]
       IN IF act.err # NoErr
          THEN Outcome(failed, Append(writes, failed), TRUE, act.calls, RequeueSeconds, act.err)
          ELSE Outcome(moved, Append(writes, moved), TRUE, act.calls, RequeueSeconds, NoErr)

\* powerAction whose success path goes through clearFailure, which also
\* resets the failure streak.
powerAction_clears(server, writes, backend) ==
  IF server.Spec.PowerState = currentState(server)
  THEN Outcome(server, writes, TRUE, <<>>, 0, NoErr)
  ELSE IF server.Spec.PowerState \notin {PowerStateOn, PowerStateOff}
  THEN Outcome(server, writes, TRUE, <<>>, 0, NoErr)
  ELSE LET on == server.Spec.PowerState = PowerStateOn
           act == IF on THEN powerOn(server, backend) ELSE powerOff(server, backend)
           newStatus == IF on THEN StatusPending ELSE StatusDraining
           failed == [server EXCEPT !.Status.Status = StatusFailed,
                                    !.Status.Message = <<"Power action failed: ">> \o act.err]
           moved == [server EXCEPT !.Status = clearFailure(server.Status, newStatus)]
       IN IF act.err # NoErr
          THEN Outcome(failed, Append(writes, failed), TRUE, act.calls, 0, act.err)
          ELSE Outcome(moved, Append(writes, moved), TRUE, act.calls, RequeueSeconds, NoErr)

\* Reconcile from "Determine current power state" to the end; writes are the
\* status updates already made by this invocation.
powerAction(server, writes, backend) ==
  IF server.Spec.PowerState = currentState(server)
  THEN Outcome(server, writes, TRUE, <<>>, 0, NoErr)
  ELSE IF server.Spec.PowerState \notin {PowerStateOn, PowerStateOff}
  THEN Outcome(server, writes, TRUE, <<>>, 0, NoErr)
  ELSE LET on == server.Spec.PowerState = PowerStateOn
           act == IF on THEN powerOn(server, backend) ELSE powerOff(server, backend)
           newStatus == IF on THEN StatusPending ELSE StatusDraining
           failed == [server EXCEPT !.Status.Status = StatusFailed,
                                    !.Status.Message = <<"Power action failed: ">> \o act.err]
           moved == [server EXCEPT !.Status.Status = newStatus, !.Status.Message = <<>>]
       IN IF act.err # NoErr
          THEN Outcome(failed, Append(writes, failed), TRUE, act.calls, 0, act.err)
          ELSE Outcome(moved, Append(writes, moved), TRUE, act.calls, RequeueSeconds, NoErr)

\* reconcileServer whose pending and draining branches go on to the power
\* action once the record has arrived.
reconcileServer_fallsThrough(name, server0, reachable, backend, t) ==
  LET server == defaultPowerState(server0)
  IN IF isFailed(server) THEN Outcome(server, <<>>, FALSE, <<>>, 0, NoErr)
     ELSE IF thresholdReached(server)
       THEN LET f == [server EXCEPT !.Status.Status = StatusFailed]
            IN Outcome(f, <<f>>, FALSE, <<>>, 0, NoErr)
     ELSE IF getServerAddress(server) = ""
       THEN LET f == [server EXCEPT !.Status.Status = StatusFailed,
                                    !.Status.Message = <<"No address configured for server">>]
            IN Outcome(f, <<f>>, FALSE, <<>>, 0, <<"no address configured for server ", name>>)
     ELSE IF server.Status.Status \in {StatusPending, StatusDraining}
       THEN LET w == [server EXCEPT !.Status = waitStatus(server, reachable, t)]
            IN IF w.Status.Status \in {StatusActive, StatusOffline}
               THEN powerAction(w, <<w>>, backend)
               ELSE Outcome(w, <<w>>, TRUE, <<>>, waitRequeue(server, reachable), NoErr)
     ELSE LET c == classify(server, reachable)
          IN powerAction(c.server, c.writes, backend)

\* Reconcile after a successful Get: server0 is the record read, reachable
\* the answer the Pinger gives if asked, backend the error the power
\* backend returns if called, t the time metav1.Now() returns if called.
reconcileServer(name, server0, reachable, backend, t) ==
  LET server == defaultPowerState(server0)
  IN IF isFailed(server) THEN Outcome(server, <<>>, FALSE, <<>>, 0, NoErr)
     ELSE IF thresholdReached(server)
       THEN LET f == [server EXCEPT !.Status.Status = StatusFailed]
            IN Outcome(f, <<f>>, FALSE, <<>>, 0, NoErr)
     ELSE IF getServerAddress(server) = ""
       THEN LET f == [server EXCEPT !.Status.Status = StatusFailed,
                                    !.Status.Message = <<"No address configured for server">>]
            IN Outcome(f, <<f>>, FALSE, <<>>, 0, <<"no address configured for server ", name>>)
     ELSE IF server.Status.Status \in {StatusPending, StatusDraining}
       THEN LET w == [server EXCEPT !.Status = waitStatus(server, reachable, t)]
            IN Outcome(w, <<w>>, TRUE, <<>>, waitRequeue(server, reachable), NoErr)
     ELSE LET c == classify(server, reachable)
          IN powerAction(c.server, c.writes, backend)

\* The stored record after the status updates of an invocation, in order.
RECURSIVE applyWrites(_, _)
applyWrites(rec, writes) ==
  IF writes = <<>> THEN rec
  ELSE applyWrites(StatusUpdate(rec, Head(writes)), Tail(writes))

\* ------------------------------------------------------- handler history
\* last describes the latest handler invocation: for Reconcile the status
\* and desired state it read, the probe answer, the capability calls, the
\* statuses it sent to Status().Update, the time on the clock (when it got
\* as far as the probe), the answer of the power backend (when it was
\* called) and what it returned; for an adapter
\* call the request, the records it updated and what it returned.
NoLast ==
  [op |-> "none", id |-> "", found |-> FALSE, before |-> ServerStatus, desired |-> "",
   probed |-> FALSE, reachable |-> FALSE, calls |-> <<>>, writes |-> <<>>,
   requeue |-> 0, err |-> NoErr, delta |-> 0, nodes |-> <<>>, updates |-> <<>>,
   size |-> 0, groups |-> <<>>, instances |-> <<>>, t |-> 0, backend |-> <<>>]

\* runs[m] counts the latest consecutive Reconcile invocations for m in
\* which the probe reported unreachable, the first of which found m pending
\* with failureCount 0.
nextRuns(n, before, probed, reachable) ==
  IF probed /\ ~reachable
  THEN IF before.Status = StatusPending /\ before.FailureCount = 0 THEN 1
       ELSE IF n > 0 /\ n <= FailureThreshold THEN n + 1
       ELSE 0
  ELSE 0

\* The times metav1.Now() can return.
Times == 0..MaxTime

\* ------------------------------------------------------------------- Init
\* Newly created records: the first with any control block and any desired
\* state, the second a complete WOL record.
FreshRecords ==
  {[Spec |-> ServerSpec(ps, c), Status |-> ServerStatus] :
     ps \in {PowerStateOn, PowerStateOff, ""}, c \in Controls}

SecondRecords ==
  {r \in FreshRecords : /\ r.Spec.Type = ControlTypeWOL
                        /\ r.Spec.Control.WOL = FullWOL
                        /\ r.Spec.PowerState # ""}

Init ==
  /\ store \in [Machines -> FreshRecords]
  /\ store[Order[2]] \in SecondRecords
  /\ runs = [m \in Machines |-> 0]
  /\ last = NoLast
  /\ Unused

\* Records whose status an external actor has set: any phase with any
\* failure streak.
AnyStatuses ==
  [Status : {"", StatusPending, StatusActive, StatusOffline, StatusDraining, StatusFailed},
   Message : {<<>>, <<"Power action failed: ", "backend unavailable">>},
   FailingSince : {NilTime, 0},
   FailureCount : 0..FailureThreshold]

InitAny ==
  /\ store \in [Machines -> [Spec : {r.Spec : r \in FreshRecords}, Status : AnyStatuses]]
  /\ store[Order[2]] \in SecondRecords
  /\ runs = [m \in Machines |-> 0]
  /\ last = NoLast
  /\ Unused

\* ---------------------------------------------------------------- actions
\* The error r.Get returns for a name the store does not hold.
NotFound(name) == <<"servers ", name, " not found">>

\* IgnoreNotFound that hands every error back to the caller.
IgnoreNotFound_keeps(err, name) == err

\* client.IgnoreNotFound as Reconcile applies it to the error of r.Get.
IgnoreNotFound(err, name) == IF err = NotFound(name) THEN NoErr ELSE err

\* ServerReconciler.Reconcile for the request named id.
Reconcile(id) ==
  IF id \notin Machines
  THEN /\ last' = [NoLast EXCEPT !.op = "Reconcile", !.id = id,
                                 !.err = IgnoreNotFound(NotFound(id), id)]
       /\ UNCHANGED <<store, runs, extra>>
  ELSE \E reachable \in BOOLEAN, backend \in {NoErr, BackendErr}, t \in Times :
         LET o == reconcileServer(id, store[id], reachable, backend, t)
         IN /\ store' = [store EXCEPT ![id] = applyWrites(@, o.writes)]
            /\ runs' = [runs EXCEPT ![id] = nextRuns(@, store[id].Status, o.probed, reachable)]
            /\ UNCHANGED extra
            /\ last' = [NoLast EXCEPT !.op = "Reconcile", !.id = id, !.found = TRUE,
                                      !.before = store[id].Status,
                                      !.desired = store[id].Spec.PowerState,
                                      !.probed = o.probed,
                                      !.reachable = o.probed /\ reachable,
                                      !.calls = o.calls,
                                      !.writes = [i \in 1..Len(o.writes) |-> o.writes[i].Status],
                                      !.requeue = o.requeue, !.err = o.err,
                                      !.t = IF o.probed THEN t ELSE 0,
                                      !.backend = IF o.calls # <<>> THEN backend ELSE NoErr]

\* ------------------------------------------------ BareMetalProviderServer
unknownNodeGroup(id) == <<"unknown node group: ", id>>

\* knownNodeGroup that takes every id for the pool.
knownNodeGroup_any(id) == TRUE

\* The adapter's test "nodeGroupID != defaultNodeGroupID", negated.
knownNodeGroup(id) == id = defaultNodeGroupID

\* increaseLoop that goes on for one record after delta are provisioned.
RECURSIVE increaseLoop_oneMore(_, _, _, _)
increaseLoop_oneMore(items, i, provisioned, delta) ==
  IF i > Len(Order) \/ provisioned > delta
  THEN [items |-> items, count |-> provisioned, updates |-> <<>>]
  ELSE LET m == Order[i]
           server == [items[m] EXCEPT !.Spec.PowerState = PowerStateOn]
       IN IF items[m].Spec.PowerState = PowerStateOff
          THEN LET r == increaseLoop_oneMore([items EXCEPT ![m] = ClientUpdate(items[m], server)],
                                             i + 1, provisioned + 1, delta)
               IN [r EXCEPT !.updates = <<m>> \o r.updates]
          ELSE increaseLoop_oneMore(items, i + 1, provisioned, delta)

\* The loop of NodeGroupIncreaseSize over the listed items, from index i on:
\* items is the store as the updates made so far leave it, updates the names
\* of the records updated.
RECURSIVE increaseLoop(_, _, _, _)
increaseLoop(items, i, provisioned, delta) ==
  IF i > Len(Order) \/ provisioned >= delta
  THEN [items |-> items, count |-> provisioned, updates |-> <<>>]
  ELSE LET m == Order[i]
           server == [items[m] EXCEPT !.Spec.PowerState = PowerStateOn]
       IN IF items[m].Spec.PowerState = PowerStateOff
          THEN LET r == increaseLoop([items EXCEPT ![m] = ClientUpdate(items[m], server)],
                                     i + 1, provisioned + 1, delta)
               IN [r EXCEPT !.updates = <<m>> \o r.updates]
          ELSE increaseLoop(items, i + 1, provisioned, delta)

\* decreaseLoop that does not stop once delta records are powered off.
RECURSIVE decreaseLoop_noBreak(_, _, _, _)
decreaseLoop_noBreak(items, i, powered_off, delta) ==
  IF i > Len(Order)
  THEN [items |-> items, count |-> powered_off, updates |-> <<>>]
  ELSE LET m == Order[i]
           server == [items[m] EXCEPT !.Spec.PowerState = PowerStateOff]
       IN IF items[m].Spec.PowerState = PowerStateOn
          THEN LET r == decreaseLoop_noBreak([items EXCEPT ![m] = ClientUpdate(items[m], server)],
                                             i + 1, powered_off + 1, delta)
               IN [r EXCEPT !.updates = <<m>> \o r.updates]
          ELSE decreaseLoop_noBreak(items, i + 1, powered_off, delta)

\* The loop of NodeGroupDecreaseTargetSize.
RECURSIVE decreaseLoop(_, _, _, _)
decreaseLoop(items, i, powered_off, delta) ==
  IF i > Len(Order) \/ powered_off >= delta
  THEN [items |-> items, count |-> powered_off, updates |-> <<>>]
  ELSE LET m == Order[i]
           server == [items[m] EXCEPT !.Spec.PowerState = PowerStateOff]
       IN IF items[m].Spec.PowerState = PowerStateOn
          THEN LET r == decreaseLoop([items EXCEPT ![m] = ClientUpdate(items[m], server)],
                                     i + 1, powered_off + 1, delta)
               IN [r EXCEPT !.updates = <<m>> \o r.updates]
          ELSE decreaseLoop(items, i + 1, powered_off, delta)

\* deleteLoop that updates only the records whose desired state is on.
RECURSIVE deleteLoop_onlyOn(_, _)
deleteLoop_onlyOn(items, nodes) ==
  IF nodes = <<>> THEN [items |-> items, updates |-> <<>>, err |-> NoErr]
  ELSE LET name == Head(nodes)
       IN IF name \notin Machines
          THEN [items |-> items, updates |-> <<>>,
                err |-> <<"failed to get server ", name, ": not found">>]
          ELSE IF items[name].Spec.PowerState # PowerStateOn
          THEN deleteLoop_onlyOn(items, Tail(nodes))
          ELSE LET server == [items[name] EXCEPT !.Spec.PowerState = PowerStateOff]
                   r == deleteLoop_onlyOn([items EXCEPT ![name] = ClientUpdate(items[name], server)],
                                          Tail(nodes))
               IN [r EXCEPT !.updates = <<name>> \o r.updates]

\* The loop of NodeGroupDeleteNodes over the nodes of the request.
RECURSIVE deleteLoop(_, _)
deleteLoop(items, nodes) ==
  IF nodes = <<>> THEN [items |-> items, updates |-> <<>>, err |-> NoErr]
  ELSE LET name == Head(nodes)
       IN IF name \notin Machines
          THEN [items |-> items, updates |-> <<>>,
                err |-> <<"failed to get server ", name, ": not found">>]
          ELSE LET server == [items[name] EXCEPT !.Spec.PowerState = PowerStateOff]
                   r == deleteLoop([items EXCEPT ![name] = ClientUpdate(items[name], server)],
                                   Tail(nodes))
               IN [r EXCEPT !.updates = <<name>> \o r.updates]

mapPowerStateToInstanceState(powerState) ==
  CASE powerState = PowerStateOn -> "instanceRunning"
    [] powerState = PowerStateOff -> "instanceDeleting"
    [] OTHER -> "unspecified"

getMaxSize(items) == Len(Order)

\* targetSize that counts every record not asked to be off.
targetSize_notOff(items) == Cardinality({m \in Machines : items[m].Spec.PowerState # PowerStateOff})

\* The count of NodeGroupTargetSize.
targetSize(items) == Cardinality({m \in Machines : items[m].Spec.PowerState = PowerStateOn})

NodeGroup(items) == [Id |-> defaultNodeGroupID, MinSize |-> 0, MaxSize |-> getMaxSize(items)]

Rpc(op, id) == [NoLast EXCEPT !.op = op, !.id = id]

NodeGroups ==
  /\ last' = [Rpc("NodeGroups", "") EXCEPT !.groups = <<NodeGroup(store)>>]
  /\ UNCHANGED <<store, runs, extra>>

\* provisionShortfall that reports success whatever was provisioned.
provisionShortfall_none(provisioned, delta) == NoErr

\* NodeGroupIncreaseSize, "if provisioned < int(req.Delta)": the error
\* returned after the loop.
provisionShortfall(provisioned, delta) ==
  IF provisioned < delta
  THEN <<"could not provision enough servers: requested ", ToString(delta),
         ", provisioned ", ToString(provisioned)>>
  ELSE NoErr

NodeGroupIncreaseSize(id, delta) ==
  IF ~knownNodeGroup(id)
  THEN /\ last' = [Rpc("NodeGroupIncreaseSize", id) EXCEPT !.delta = delta, !.err = unknownNodeGroup(id)]
       /\ UNCHANGED <<store, runs, extra>>
  ELSE IF delta <= 0
  THEN /\ last' = [Rpc("NodeGroupIncreaseSize", id) EXCEPT !.delta = delta]
       /\ UNCHANGED <<store, runs, extra>>
  ELSE LET r == increaseLoop(store, 1, 0, delta)
       IN /\ store' = r.items
          /\ UNCHANGED <<runs, extra>>
          /\ last' = [Rpc("NodeGroupIncreaseSize", id) EXCEPT
                        !.delta = delta, !.updates = r.updates,
                        !.err = provisionShortfall(r.count, delta)]

NodeGroupDeleteNodes(id, nodes) ==
  IF ~knownNodeGroup(id)
  THEN /\ last' = [Rpc("NodeGroupDeleteNodes", id) EXCEPT !.nodes = nodes, !.err = unknownNodeGroup(id)]
       /\ UNCHANGED <<store, runs, extra>>
  ELSE LET r == deleteLoop(store, nodes)
       IN /\ store' = r.items
          /\ UNCHANGED <<runs, extra>>
          /\ last' = [Rpc("NodeGroupDeleteNodes", id) EXCEPT
                        !.nodes = nodes, !.updates = r.updates, !.err = r.err]

NodeGroupForNode(name) ==
  /\ last' = [Rpc("NodeGroupForNode", name) EXCEPT
                !.found = name \in Machines,
                !.groups = IF name \in Machines THEN <<NodeGroup(store)>> ELSE <<>>]
  /\ UNCHANGED <<store, runs, extra>>

NodeGroupTargetSize(id) ==
  /\ last' = IF ~knownNodeGroup(id)
             THEN [Rpc("NodeGroupTargetSize", id) EXCEPT !.err = unknownNodeGroup(id)]
             ELSE [Rpc("NodeGroupTargetSize", id) EXCEPT !.size = targetSize(store)]
  /\ UNCHANGED <<store, runs, extra>>

NodeGroupDecreaseTargetSize(id, delta) ==
  IF ~knownNodeGroup(id)
  THEN /\ last' = [Rpc("NodeGroupDecreaseTargetSize", id) EXCEPT !.delta = delta, !.err = unknownNodeGroup(id)]
       /\ UNCHANGED <<store, runs, extra>>
  ELSE IF delta <= 0
  THEN /\ last' = [Rpc("NodeGroupDecreaseTargetSize", id) EXCEPT !.delta = delta]
       /\ UNCHANGED <<store, runs, extra>>
  ELSE LET r == decreaseLoop(store, 1, 0, delta)
       IN /\ store' = r.items
          /\ UNCHANGED <<runs, extra>>
          /\ last' = [Rpc("NodeGroupDecreaseTargetSize", id) EXCEPT
                        !.delta = delta, !.updates = r.updates]

\* Instance that reports a record as running when its phase is active.
Instance_byPhase(name, server) ==
  [Id |-> name,
   InstanceState |-> IF server.Status.Status = StatusActive THEN "instanceRunning"
                     ELSE mapPowerStateToInstanceState(server.Spec.PowerState)]

\* NodeGroupNodes, the body of the loop: the entry for one listed record.
Instance(name, server) ==
  [Id |-> name, InstanceState |-> mapPowerStateToInstanceState(server.Spec.PowerState)]

\* NodeGroupNodes, the loop over the listed records.
instances(items) == [i \in 1..Len(Order) |-> Instance(Order[i], items[Order[i]])]

NodeGroupNodes(id) ==
  /\ last' = IF ~knownNodeGroup(id)
             THEN [Rpc("NodeGroupNodes", id) EXCEPT !.err = unknownNodeGroup(id)]
             ELSE [Rpc("NodeGroupNodes", id) EXCEPT
                     !.instances = instances(store)]
  /\ UNCHANGED <<store, runs, extra>>

Refresh ==
  /\ last' = Rpc("Refresh", "")
  /\ UNCHANGED <<store, runs, extra>>

Cleanup ==
  /\ last' = Rpc("Cleanup", "")
  /\ UNCHANGED <<store, runs, extra>>

\* The requests the autoscaler can send.
PoolIds == {defaultNodeGroupID, "other-pool"}
Deltas == 0..MaxDelta
RECURSIVE SeqsUpTo(_, _)
SeqsUpTo(S, n) ==
  IF n = 0 THEN {<<>>}
  ELSE SeqsUpTo(S, n - 1) \cup {Append(q, x) : q \in SeqsUpTo(S, n - 1), x \in S}
NodeLists == SeqsUpTo(Ids, MaxNodes)

Adapter ==
  \/ NodeGroups
  \/ \E id \in PoolIds, delta \in Deltas : NodeGroupIncreaseSize(id, delta)
  \/ \E id \in PoolIds, nodes \in NodeLists : NodeGroupDeleteNodes(id, nodes)
  \/ \E name \in Ids : NodeGroupForNode(name)
  \/ \E id \in PoolIds : NodeGroupTargetSize(id)
  \/ \E id \in PoolIds, delta \in Deltas : NodeGroupDecreaseTargetSize(id, delta)
  \/ \E id \in PoolIds : NodeGroupNodes(id)
  \/ Refresh
  \/ Cleanup

\* The names Reconcile is requested for: the first record and a name with no
\* record.  The other record is one the adapter alone works on.
Requests == {Order[1], "ghost"}

Next ==
  \/ \E id \in Requests : Reconcile(id)
  \/ Adapter

\* The reconciler alone, requested for every name in any order.
NextEngine == \E id \in Ids : Reconcile(id)

SpecEngine == Init /\ [][NextEngine]_vars

\* The reconciler requested for records whose status an external actor set.
NextAny == \E id \in Requests : Reconcile(id)

SpecAny == InitAny /\ [][NextAny]_vars

Spec == Init /\ [][Next]_vars

\* ==================================================== interleaved handlers
\* The handlers as the goroutines they run in: a handler reads the store,
\* then sends its updates one at a time, and the steps of other handlers fall
\* in between.  Every object read carries the metadata.resourceVersion of
\* the record, and the update of an object sends it back.

\* accepts that takes every update, whatever version it carries.
accepts_any(ver, m, v) == TRUE

\* Client.Update and Status().Update against the store: the update is
\* taken when the resourceVersion sent with it is the record's, and is
\* answered with a conflict error otherwise.
accepts(ver, m, v) == ver[m] = v

\* bump that leaves the resourceVersion as it was.
bump_never(ver, m, old, new) == ver

\* The versions after an update of m was taken: a write that changes the
\* record gives it a new resourceVersion.
bump(ver, m, old, new) == IF new = old THEN ver ELSE [ver EXCEPT ![m] = @ + 1]

\* The error of an update the store answered with a conflict.
Conflict == <<"the object has been modified">>

\* Client.List: the records, each with its resourceVersion.
List(items, ver) == [m \in Machines |-> [obj |-> items[m], ver |-> ver[m]]]

\* The goroutines of the adapter's gRPC server that serve calls.
Goroutines == {"g1", "g2"}

NoItems == [m \in Machines |-> [obj |-> <<>>, ver |-> 0]]

\* A goroutine serving no call.
NoRpc ==
  [op |-> "none", pc |-> "idle", delta |-> 0, nodes |-> <<>>, items |-> NoItems,
   i |-> 1, count |-> 0, err |-> NoErr, flips |-> <<>>]

\* NodeGroupIncreaseSize and NodeGroupDecreaseTargetSize on the known pool
\* with a positive delta, up to the end of Client.List.
RpcList(p, op, delta) ==
  /\ rpc[p].pc = "idle"
  /\ rpc' = [rpc EXCEPT ![p] = [NoRpc EXCEPT !.op = op, !.pc = "loop", !.delta = delta,
                                              !.items = List(store, version)]]
  /\ UNCHANGED <<store, runs, last, version, eng, tally, machine>>

\* One turn of the loop of NodeGroupIncreaseSize, and the return after it.
IncreaseStep(p) ==
  LET c == rpc[p]
  IN /\ c.op = "NodeGroupIncreaseSize" /\ c.pc = "loop"
     /\ IF c.i > Len(Order) \/ c.count >= c.delta
        THEN /\ rpc' = [rpc EXCEPT ![p].pc = "done", ![p].items = NoItems,
                                   ![p].err = provisionShortfall(c.count, c.delta)]
             /\ UNCHANGED <<store, version>>
        ELSE LET m == Order[c.i]
                 server == [c.items[m].obj EXCEPT !.Spec.PowerState = PowerStateOn]
             IN IF c.items[m].obj.Spec.PowerState # PowerStateOff
                THEN /\ rpc' = [rpc EXCEPT ![p].i = @ + 1]
                     /\ UNCHANGED <<store, version>>
                ELSE IF accepts(version, m, c.items[m].ver)
                THEN /\ store' = [store EXCEPT ![m] = ClientUpdate(@, server)]
                     /\ version' = bump(version, m, store[m], store'[m])
                     /\ rpc' = [rpc EXCEPT ![p].i = @ + 1, ![p].count = @ + 1,
                                           ![p].flips = Append(@, m)]
                ELSE /\ rpc' = [rpc EXCEPT ![p].pc = "done", ![p].items = NoItems,
                                           ![p].err = <<"failed to power on server ", m, ": ">>
                                                      \o Conflict]
                     /\ UNCHANGED <<store, version>>
     /\ UNCHANGED <<runs, last, eng, tally, machine>>

\* One turn of the loop of NodeGroupDecreaseTargetSize, and the return.
DecreaseStep(p) ==
  LET c == rpc[p]
  IN /\ c.op = "NodeGroupDecreaseTargetSize" /\ c.pc = "loop"
     /\ IF c.i > Len(Order) \/ c.count >= c.delta
        THEN /\ rpc' = [rpc EXCEPT ![p].pc = "done", ![p].items = NoItems]
             /\ UNCHANGED <<store, version>>
        ELSE LET m == Order[c.i]
                 server == [c.items[m].obj EXCEPT !.Spec.PowerState = PowerStateOff]
             IN IF c.items[m].obj.Spec.PowerState # PowerStateOn
                THEN /\ rpc' = [rpc EXCEPT ![p].i = @ + 1]
                     /\ UNCHANGED <<store, version>>
                ELSE IF accepts(version, m, c.items[m].ver)
                THEN /\ store' = [store EXCEPT ![m] = ClientUpdate(@, server)]
                     /\ version' = bump(version, m, store[m], store'[m])
                     /\ rpc' = [rpc EXCEPT ![p].i = @ + 1, ![p].count = @ + 1,
                                           ![p].flips = Append(@, m)]
                ELSE /\ rpc' = [rpc EXCEPT ![p].pc = "done", ![p].items = NoItems,
                                           ![p].err = <<"failed to power off server ", m, ": ">>
                                                      \o Conflict]
                     /\ UNCHANGED <<store, version>>
     /\ UNCHANGED <<runs, last, eng, tally, machine>>

\* NodeGroupDeleteNodes on the known pool, up to the loop.
DeleteBegin(p, nodes) ==
  /\ rpc[p].pc = "idle"
  /\ rpc' = [rpc EXCEPT ![p] = [NoRpc EXCEPT !.op = "NodeGroupDeleteNodes", !.pc = "get",
                                              !.nodes = nodes]]
  /\ UNCHANGED <<store, runs, last, version, eng, tally, machine>>

\* The loop of NodeGroupDeleteNodes at Client.Get, and the return after the
\* last node.
DeleteGet(p) ==
  LET c == rpc[p]
  IN /\ c.op = "NodeGroupDeleteNodes" /\ c.pc = "get"
     /\ IF c.nodes = <<>>
        THEN rpc' = [rpc EXCEPT ![p].pc = "done", ![p].items = NoItems]
        ELSE LET name == Head(c.nodes)
             IN IF name \notin Machines
                THEN rpc' = [rpc EXCEPT ![p].pc = "done", ![p].items = NoItems,
                                       ![p].err = <<"failed to get server ", name, ": not found">>]
                ELSE rpc' = [rpc EXCEPT ![p].pc = "update",
                                       ![p].items[name] = List(store, version)[name]]
     /\ UNCHANGED <<store, runs, last, version, eng, tally, machine>>

\* The loop of NodeGroupDeleteNodes at Client.Update.
DeleteUpdate(p) ==
  LET c == rpc[p]
      m == Head(c.nodes)
      server == [c.items[m].obj EXCEPT !.Spec.PowerState = PowerStateOff]
  IN /\ c.op = "NodeGroupDeleteNodes" /\ c.pc = "update"
     /\ IF accepts(version, m, c.items[m].ver)
        THEN /\ store' = [store EXCEPT ![m] = ClientUpdate(@, server)]
             /\ version' = bump(version, m, store[m], store'[m])
             /\ rpc' = [rpc EXCEPT ![p].pc = "get", ![p].nodes = Tail(@),
                                   ![p].count = @ + 1, ![p].flips = Append(@, m)]
             /\ tally' = [tally EXCEPT !.deleted =
                            IF store[m].Spec.PowerState = PowerStateOn THEN @ + 1 ELSE @]
        ELSE /\ rpc' = [rpc EXCEPT ![p].pc = "done", ![p].items = NoItems,
                                   ![p].err = <<"failed to power off server ", m, ": ">>
                                              \o Conflict]
             /\ UNCHANGED <<store, version, tally>>
     /\ UNCHANGED <<runs, last, eng, machine>>

\* The record the reconciler is requested for while the adapter serves
\* calls, and the number of requests.
EngineName == Order[1]
MaxInvocations == 1

\* No Reconcile in progress, none made.
NoEng ==
  [pc |-> "idle", n |-> 0, read |-> <<>>, o |-> <<>>, queue |-> <<>>, ver |-> 0,
   reachable |-> FALSE, backend |-> NoErr, rejected |-> 0]

\* Reconcile up to the end of r.Get.  What the invocation goes on to do
\* follows from the object read, the probe and the power backend, the
\* answers to its status updates being dropped; the updates are queued in
\* the order the code sends them.
ReconcileGet(reachable, backend) ==
  /\ eng.pc = "idle" /\ eng.n < MaxInvocations
  /\ LET o == reconcileServer(EngineName, store[EngineName], reachable, backend, 0)
     IN eng' = [pc |-> "run", n |-> eng.n + 1, read |-> store[EngineName], o |-> o,
                queue |-> o.writes, ver |-> version[EngineName],
                reachable |-> o.probed /\ reachable,
                backend |-> IF o.calls # <<>> THEN backend ELSE NoErr, rejected |-> 0]
  /\ UNCHANGED <<store, runs, last, version, rpc, tally, machine>>

\* One r.Status().Update of the invocation: when the store takes it the
\* local object gets the record's new resourceVersion; when it answers with
\* a conflict the code goes on, the error unread.
ReconcileUpdate ==
  /\ eng.pc = "run" /\ eng.queue # <<>>
  /\ IF accepts(version, EngineName, eng.ver)
     THEN /\ store' = [store EXCEPT ![EngineName] = StatusUpdate(@, Head(eng.queue))]
          /\ version' = bump(version, EngineName, store[EngineName], store'[EngineName])
          /\ eng' = [eng EXCEPT !.queue = Tail(@), !.ver = version'[EngineName]]
     ELSE /\ eng' = [eng EXCEPT !.queue = Tail(@), !.rejected = @ + 1]
          /\ UNCHANGED <<store, version>>
  /\ UNCHANGED <<runs, last, rpc, tally, machine>>

\* The return of the invocation.
ReconcileReturn ==
  /\ eng.pc = "run" /\ eng.queue = <<>>
  /\ eng' = [eng EXCEPT !.pc = "idle"]
  /\ last' = [NoLast EXCEPT !.op = "Reconcile", !.id = EngineName, !.found = TRUE,
                            !.before = eng.read.Status,
                            !.desired = eng.read.Spec.PowerState,
                            !.probed = eng.o.probed,
                            !.reachable = eng.reachable,
                            !.calls = eng.o.calls,
                            !.writes = [i \in 1..Len(eng.o.writes) |-> eng.o.writes[i].Status],
                            !.requeue = eng.o.requeue, !.err = eng.o.err,
                            !.backend = eng.backend]
  /\ UNCHANGED <<store, runs, version, rpc, tally, machine>>

\* Two complete WOL records, each wanted on or off, not yet reconciled.
InitRace ==
  /\ store \in [Machines -> SecondRecords]
  /\ runs = [m \in Machines |-> 0]
  /\ last = NoLast
  /\ version = [m \in Machines |-> 1]
  /\ rpc = [p \in Goroutines |-> NoRpc]
  /\ eng = NoEng
  /\ tally = [initial |-> targetSize(store), deleted |-> 0]
  /\ machine = <<>>

RaceDeltas == 1..Len(Order)
RaceNodes == SeqsUpTo(Machines, MaxNodes) \ {<<>>}

NextRace ==
  \/ \E p \in Goroutines, delta \in RaceDeltas :
       RpcList(p, "NodeGroupIncreaseSize", delta)
  \/ \E p \in Goroutines, delta \in RaceDeltas :
       RpcList(p, "NodeGroupDecreaseTargetSize", delta)
  \/ \E nodes \in RaceNodes : DeleteBegin("g1", nodes)
  \/ \E p \in Goroutines : IncreaseStep(p)
  \/ \E p \in Goroutines : DecreaseStep(p)
  \/ \E p \in Goroutines : DeleteGet(p)
  \/ \E p \in Goroutines : DeleteUpdate(p)
  \/ \E reachable \in BOOLEAN, backend \in {NoErr, BackendErr} : ReconcileGet(reachable, backend)
  \/ ReconcileUpdate
  \/ ReconcileReturn

SpecRace == InitRace /\ [][NextRace]_vars

\* ============================================ the reconciler and its machine
\* The first record reconciled by the controller that SetupWithManager
\* builds, with the machine behind it as part of the state.  machine.due
\* says why an invocation is owed: "created" for the event of the record's
\* creation, "requeue" for a RequeueAfter returned, "status" for the watch
\* event of a status update the invocation itself stored (For(&Server{})
\* filters no events), "none" when nothing is owed.  The power backend
\* accepts every call; the machine follows the call last sent to it, and
\* does so before the probes that miss it exhaust the failure threshold.

\* The machine has not yet followed the power call last sent to it.
Lagging ==
  /\ machine.target # "none"
  /\ machine.reachable # (machine.target = "on")

\* The invocation owed now would count one more miss of a machine that is
\* about to follow, and that miss would exhaust the threshold.
MissExhausts ==
  /\ Lagging
  /\ store[EngineName].Status.Status \in {StatusPending, StatusDraining}
  /\ store[EngineName].Status.FailureCount + 1 >= FailureThreshold

\* Reconcile for the first record: the probe answers as the machine is.
ReconcileMachine ==
  /\ ~MissExhausts
  /\ LET o == reconcileServer(EngineName, store[EngineName], machine.reachable, NoErr, 0)
         after == applyWrites(store[EngineName], o.writes)
     IN /\ store' = [store EXCEPT ![EngineName] = after]
        /\ machine' = [machine EXCEPT
                         !.target = IF o.calls = <<>> THEN @
                                    ELSE IF o.calls[1].fn \in {"Wake", "PowerOn"} THEN "on"
                                    ELSE "off",
                         !.due = IF o.requeue > 0 THEN "requeue"
                                 ELSE IF after # store[EngineName] THEN "status"
                                 ELSE "none"]
  /\ UNCHANGED <<runs, last, version, rpc, eng, tally>>

\* The invocation owed for the creation of the record or for a requeue.
ReconcileScheduled ==
  /\ machine.due \in {"created", "requeue"}
  /\ ReconcileMachine

\* The invocation owed for the watch event of a stored status update.
ReconcileOnStatusEvent ==
  /\ machine.due = "status"
  /\ ReconcileMachine

\* The machine follows the power call last sent to it.
MachineFollows ==
  /\ Lagging
  /\ machine' = [machine EXCEPT !.reachable = (machine.target = "on")]
  /\ UNCHANGED <<store, runs, last, version, rpc, eng, tally>>

\* A record complete for WOL or for IPMI, wanted on or off, in any phase but
\* failed with the failure streak below the threshold; a pending record has
\* had its power-on call, a draining one its power-off call.
LiveRecords ==
  {[Spec |-> r.Spec,
    Status |-> [Status |-> ph, Message |-> <<>>,
                FailingSince |-> IF fc = 0 THEN NilTime ELSE 0, FailureCount |-> fc]] :
     r \in {x \in FreshRecords : /\ x.Spec.PowerState # ""
                                 /\ \/ x.Spec.Type = ControlTypeWOL /\ x.Spec.Control.WOL = FullWOL
                                    \/ x.Spec.Type = ControlTypeIPMI /\ x.Spec.Control.IPMI = FullIPMI},
     ph \in {"", StatusPending, StatusActive, StatusOffline, StatusDraining},
     fc \in 0..(FailureThreshold - 1)}

InitLive ==
  /\ store \in [Machines -> LiveRecords \cup SecondRecords]
  /\ store[EngineName] \in LiveRecords
  /\ store[Order[2]] = [Spec |-> ServerSpec(PowerStateOff, [Type |-> ControlTypeWOL, WOL |-> FullWOL, IPMI |-> NoIPMI]),
                        Status |-> ServerStatus]
  /\ runs = [m \in Machines |-> 0]
  /\ last = NoLast
  /\ version = <<>> /\ rpc = <<>> /\ eng = <<>> /\ tally = <<>>
  /\ machine \in [reachable : BOOLEAN,
                   target : {CASE store[EngineName].Status.Status = StatusPending -> "on"
                               [] store[EngineName].Status.Status = StatusDraining -> "off"
                               [] OTHER -> "none"},
                   due : {"created"}]

NextLive ==
  \/ ReconcileScheduled
  \/ ReconcileOnStatusEvent
  \/ MachineFollows

\* Fairness as far as returned requeues and the creation event go; the
\* invocation for a status event may be put off for ever.
SpecLive ==
  /\ InitLive
  /\ [][NextLive]_vars
  /\ WF_vars(ReconcileScheduled)
  /\ WF_vars(MachineFollows)

\* =================================================================== claims
\* The latest handler invocation was a Reconcile that found its record.
Reconciled == last.op = "Reconcile" /\ last.found

\* The stored status of the record the latest invocation was for.
After == store[last.id].Status

AdapterOps ==
  {"NodeGroups", "NodeGroupIncreaseSize", "NodeGroupDeleteNodes", "NodeGroupForNode",
   "NodeGroupTargetSize", "NodeGroupDecreaseTargetSize", "NodeGroupNodes", "Refresh", "Cleanup"}

\* ------------------------------------------------------------------- C1
\* C1: a Reconcile that reads phase failed returns (no requeue, no error),
\* asks no probe, calls no capability and sends no status update; and no
\* step of the system changes the status of a record whose phase is failed.
C1_FailedIsTerminal ==
  /\ [](Reconciled /\ last.before.Status = StatusFailed =>
          /\ last.err = NoErr /\ last.requeue = 0
          /\ ~last.probed /\ last.calls = <<>> /\ last.writes = <<>>
          /\ After = last.before)
  /\ [][\A m \in Machines : store[m].Status.Status = StatusFailed =>
                              store'[m].Status = store[m].Status]_vars

C1_Witness == Reconciled /\ last.before.Status = StatusFailed

\* ------------------------------------------------------------------- C2
\* C2 as claimed: after FailureThreshold consecutive unreachable-while-
\* pending invocations, starting from failureCount 0, the stored phase is
\* failed.
C2_FailedAfterThresholdRuns ==
  \A m \in Machines : runs[m] = FailureThreshold => store[m].Status.Status = StatusFailed

\* C2 amended: after those FailureThreshold invocations the record is still
\* pending with failureCount = FailureThreshold; the invocation that reads a
\* failureCount at the threshold in a non-failed phase stores failed without
\* probing; and a failureCount at the threshold never changes again.
C2_FailedOnNextInvocation ==
  /\ [](\A m \in Machines : runs[m] = FailureThreshold =>
          /\ store[m].Status.Status = StatusPending
          /\ store[m].Status.FailureCount = FailureThreshold)
  /\ [](Reconciled /\ last.before.Status # StatusFailed
          /\ last.before.FailureCount >= FailureThreshold =>
          /\ After = [last.before EXCEPT !.Status = StatusFailed]
          /\ ~last.probed /\ last.requeue = 0 /\ last.err = NoErr)
  /\ [][\A m \in Machines : store[m].Status.FailureCount >= FailureThreshold =>
          store'[m].Status.FailureCount = store[m].Status.FailureCount]_vars

C2_Witness == \E m \in Machines : runs[m] = FailureThreshold

\* ------------------------------------------------------------------- C3
\* The phases the record went through in the latest Reconcile: the one read
\* and then the one of every status update, in order.
Chain == <<last.before.Status>> \o [i \in 1..Len(last.writes) |-> last.writes[i].Status]

PowerOnSucceeded ==
  last.err = NoErr /\ Len(last.calls) = 1 /\ last.calls[1].fn \in {"Wake", "PowerOn"}

PowerOffSucceeded ==
  last.err = NoErr /\ Len(last.calls) = 1 /\ last.calls[1].fn \in {"Shutdown", "PowerOff"}

PlainEdges ==
  { <<"", StatusActive>>, <<"", StatusOffline>>, <<StatusOffline, StatusActive>>,
    <<StatusActive, StatusOffline>>, <<StatusPending, StatusActive>>,
    <<StatusDraining, StatusOffline>> }

DocumentedEdge(a, b, final) ==
  \/ a = b
  \/ <<a, b>> \in PlainEdges
  \/ a # StatusFailed /\ b = StatusFailed
  \/ a = StatusOffline /\ b = StatusPending /\ final /\ PowerOnSucceeded
  \/ a = StatusActive /\ b = StatusDraining /\ final /\ PowerOffSucceeded

\* C3: every phase change the Engine writes is a documented edge (the unset
\* phase counting among the non-failed ones), offline->pending and
\* active->draining only as the write that follows a successful power call;
\* the stored status is the last one written; and a stored status changes
\* only in a Reconcile for that record.
C3_DocumentedEdgesOnly ==
  /\ [](Reconciled =>
          /\ \A i \in 1..(Len(Chain) - 1) :
               DocumentedEdge(Chain[i], Chain[i + 1], i + 1 = Len(Chain))
          /\ After = IF last.writes = <<>> THEN last.before
                     ELSE last.writes[Len(last.writes)])
  /\ [][\A m \in Machines : store'[m].Status # store[m].Status =>
          /\ last'.op = "Reconcile" /\ last'.id = m
          /\ last'.before = store[m].Status]_vars

C3_Witness == Reconciled /\ Chain = <<StatusActive, StatusOffline, StatusPending>>

\* ------------------------------------------------------------------- C4
\* C4: a Reconcile of a converged record whose probe agrees with its phase
\* sends no status update, calls no capability and returns (no requeue, no
\* error).
C4_ConvergedIsNoOp ==
  Reconciled /\ last.probed
    /\ \/ last.before.Status = StatusActive /\ last.desired = PowerStateOn /\ last.reachable
       \/ last.before.Status = StatusOffline /\ last.desired = PowerStateOff /\ ~last.reachable
  => last.writes = <<>> /\ last.calls = <<>> /\ last.err = NoErr /\ last.requeue = 0

\* ------------------------------------------------------------------- C5
\* The latest Reconcile made a pending->active or draining->offline move.
Arrived ==
  \/ last.before.Status = StatusPending /\ After.Status = StatusActive
  \/ last.before.Status = StatusDraining /\ After.Status = StatusOffline

\* C5: a Reconcile that makes a pending->active or draining->offline move
\* leaves failureCount 0 and failingSince null; in every other Reconcile no
\* status update lowers failureCount or clears failingSince.
C5_StreakResetOnlyOnArrival ==
  Reconciled =>
    IF Arrived
    THEN After.FailureCount = 0 /\ After.FailingSince = NilTime
    ELSE /\ After.FailureCount >= last.before.FailureCount
         /\ \A i \in 1..Len(last.writes) :
              /\ last.writes[i].FailureCount >= last.before.FailureCount
              /\ last.before.FailingSince # NilTime =>
                   last.writes[i].FailingSince = last.before.FailingSince

C5_Witness ==
  /\ Reconciled /\ Arrived
  /\ last.before.FailureCount > 0 /\ last.before.FailingSince # NilTime

\* ------------------------------------------------------------------- C6
\* C6: a status update changes failingSince to a time only when the value
\* read was null and the update records a failure; an update that records a
\* failure on a running streak keeps failingSince.
C6_FailingSinceSetOnce ==
  Reconciled =>
    \A i \in 1..Len(last.writes) :
      LET w == last.writes[i]
      IN /\ w.FailingSince # NilTime /\ w.FailingSince # last.before.FailingSince =>
              /\ last.before.FailingSince = NilTime
              /\ w.FailureCount = last.before.FailureCount + 1
              /\ w.FailingSince = last.t
         /\ w.FailureCount > last.before.FailureCount /\ last.before.FailingSince # NilTime =>
              /\ w.FailureCount = last.before.FailureCount + 1
              /\ w.FailingSince = last.before.FailingSince

C6_Witness ==
  /\ Reconciled
  /\ last.before.FailingSince # NilTime /\ last.t # last.before.FailingSince
  /\ After.FailureCount = last.before.FailureCount + 1
  /\ After.FailingSince = last.before.FailingSince

\* ------------------------------------------------------------------- C7
\* C7: a Reconcile step changes the spec of no record (an unset desired
\* state stays unset in the store) and changes nothing of a record other
\* than the one it was requested for.
C7_ReconcileWritesOwnStatusOnly ==
  [][last'.op = "Reconcile" =>
       \A m \in Machines :
         /\ store'[m].Spec = store[m].Spec
         /\ m # last'.id => store'[m] = store[m]]_vars

C7_Witness ==
  /\ Reconciled /\ last.desired = "" /\ last.writes # <<>>
  /\ store[last.id].Spec.PowerState = ""
  /\ \E m \in Machines : m # last.id /\ store[m].Status.Status = StatusPending

\* ------------------------------------------------------------------- C8
\* C8: an adapter call asks no probe and calls no capability, and its step
\* changes no record's status and no spec field other than the desired
\* power state.
C8_AdapterWritesDesiredStateOnly ==
  /\ [](last.op \in AdapterOps => ~last.probed /\ last.calls = <<>> /\ last.writes = <<>>)
  /\ [][last'.op \in AdapterOps =>
          \A m \in Machines :
            /\ store'[m].Status = store[m].Status
            /\ store'[m].Spec.Type = store[m].Spec.Type
            /\ store'[m].Spec.Control = store[m].Spec.Control]_vars

C8_Witness ==
  /\ last.op = "NodeGroupDeleteNodes" /\ last.updates = <<Order[1]>>
  /\ store[Order[1]].Status.Status = StatusPending
  /\ store[Order[1]].Spec.PowerState = PowerStateOff

\* ------------------------------------------------------------------- C9
\* C9: a Reconcile that reads pending and probes reachable stores active,
\* one that reads draining and probes unreachable stores offline; either
\* stores failureCount 0, failingSince null and an empty message in a
\* single status update, calls no capability and returns (no requeue, no
\* error).
C9_ArrivalClearsStreak ==
  Reconciled /\ last.probed
    /\ \/ last.before.Status = StatusPending /\ last.reachable
       \/ last.before.Status = StatusDraining /\ ~last.reachable
  => /\ After = [Status |-> IF last.before.Status = StatusPending
                            THEN StatusActive ELSE StatusOffline,
                 Message |-> <<>>, FailingSince |-> NilTime, FailureCount |-> 0]
     /\ last.writes = <<After>>
     /\ last.calls = <<>> /\ last.err = NoErr /\ last.requeue = 0

C9_Witness ==
  /\ Reconciled /\ last.probed /\ last.reachable
  /\ last.before.Status = StatusPending /\ last.desired = PowerStateOff
  /\ last.before.FailureCount > 0 /\ last.before.Message # <<>>
  /\ After.Status = StatusActive

\* ------------------------------------------------------------------ C10
\* C10: a Reconcile that reads pending and probes unreachable, or reads
\* draining and probes reachable, with failureCount below the threshold,
\* keeps the phase and the message, adds 1 to failureCount, sets
\* failingSince to the clock if it was null, sends that one status update,
\* calls no capability and returns (60 s, no error).
C10_WaitRecordsFailure ==
  Reconciled /\ last.probed /\ last.before.FailureCount < FailureThreshold
    /\ \/ last.before.Status = StatusPending /\ ~last.reachable
       \/ last.before.Status = StatusDraining /\ last.reachable
  => /\ After = [last.before EXCEPT
                   !.FailureCount = @ + 1,
                   !.FailingSince = IF @ = NilTime THEN last.t ELSE @]
     /\ last.writes = <<After>>
     /\ last.calls = <<>> /\ last.err = NoErr /\ last.requeue = RequeueSeconds

C10_Witness ==
  /\ Reconciled /\ last.probed /\ last.reachable
  /\ last.before.Status = StatusDraining /\ last.before.FailingSince = NilTime
  /\ After.FailureCount = last.before.FailureCount + 1
  /\ last.requeue = RequeueSeconds

\* ------------------------------------------------------------------ C11
\* The spec of the record the latest Reconcile was for (Reconcile never
\* writes it).
LastSpec == store[last.id].Spec

\* The record carries everything its power-on method needs.
PowerOnConfigured ==
  \/ /\ LastSpec.Type = ControlTypeWOL
     /\ LastSpec.Control.WOL.present
     /\ LastSpec.Control.WOL.MACAddress # ""
  \/ /\ LastSpec.Type = ControlTypeIPMI
     /\ LastSpec.Control.IPMI.present
     /\ LastSpec.Control.IPMI.Address # ""
     /\ LastSpec.Control.IPMI.Username # ""
     /\ LastSpec.Control.IPMI.Password # ""

\* The power-on call the record's configuration asks for.
PowerOnCall ==
  IF LastSpec.Type = ControlTypeWOL
  THEN Call("Wake", "", LastSpec.Control.WOL.MACAddress, LastSpec.Control.WOL.Port, "", "")
  ELSE Call("PowerOn", LastSpec.Control.IPMI.Address, "", 0,
            LastSpec.Control.IPMI.Username, LastSpec.Control.IPMI.Password)

\* C11: a Reconcile of a record with desired state on and phase unset whose
\* probe reports unreachable (the record fully configured for its method,
\* the backend accepting the call) makes exactly one power-on call, Wake
\* with the configured MAC and port or PowerOn with the configured address,
\* username and password, stores phase pending with an empty message, and
\* returns no error with a requeue after 60 seconds.
C11_PowerOnFromUnset ==
  (/\ Reconciled
   /\ last.before.Status = ""
   /\ last.desired = PowerStateOn
   /\ last.probed /\ ~last.reachable
   /\ PowerOnConfigured
   /\ last.backend = NoErr)
  => /\ last.calls = <<PowerOnCall>>
     /\ After.Status = StatusPending
     /\ After.Message = <<>>
     /\ last.err = NoErr
     /\ last.requeue = RequeueSeconds

\* A Wake sent for a record that started unset with a message stored.
C11_Witness ==
  /\ Reconciled
  /\ last.before.Status = ""
  /\ last.before.Message # <<>>
  /\ last.desired = PowerStateOn
  /\ last.probed /\ ~last.reachable
  /\ last.calls = <<PowerOnCall>>
  /\ last.calls[1].fn = "Wake"
  /\ After.Status = StatusPending
\* ------------------------------------------------------------------ C12
\* The record carries everything its power-off method needs.
PowerOffConfigured ==
  \/ /\ LastSpec.Type = ControlTypeWOL
     /\ LastSpec.Control.WOL.present
     /\ LastSpec.Control.WOL.Address # ""
  \/ /\ LastSpec.Type = ControlTypeIPMI
     /\ LastSpec.Control.IPMI.present
     /\ LastSpec.Control.IPMI.Address # ""
     /\ LastSpec.Control.IPMI.Username # ""
     /\ LastSpec.Control.IPMI.Password # ""

\* The power-off call the record's configuration asks for.
PowerOffCall ==
  IF LastSpec.Type = ControlTypeWOL
  THEN Call("Shutdown", LastSpec.Control.WOL.Address, "", 0, LastSpec.Control.WOL.User, "")
  ELSE Call("PowerOff", LastSpec.Control.IPMI.Address, "", 0,
            LastSpec.Control.IPMI.Username, LastSpec.Control.IPMI.Password)

\* C12: a Reconcile of a record with desired state off (set, or unset and
\* so defaulted) and phase active whose probe reports reachable (the record
\* fully configured for its method, the backend accepting the call) makes
\* exactly one power-off call, Shutdown with the configured address and
\* user for a WOL record, stores phase draining with an empty message as
\* its only status update, and returns no error with a requeue after 60
\* seconds.
C12_ShutdownFromActive ==
  (/\ Reconciled
   /\ last.before.Status = StatusActive
   /\ last.desired \in {PowerStateOff, ""}
   /\ last.probed /\ last.reachable
   /\ PowerOffConfigured
   /\ last.backend = NoErr)
  => /\ last.calls = <<PowerOffCall>>
     /\ Len(last.writes) = 1
     /\ After.Status = StatusDraining
     /\ After.Message = <<>>
     /\ last.err = NoErr
     /\ last.requeue = RequeueSeconds

\* A Shutdown sent for a WOL record that was active with desired state off.
C12_Witness ==
  /\ Reconciled
  /\ last.before.Status = StatusActive
  /\ last.desired = PowerStateOff
  /\ last.probed /\ last.reachable
  /\ last.calls = <<PowerOffCall>>
  /\ last.calls[1].fn = "Shutdown"
  /\ last.calls[1].user # ""
  /\ After.Status = StatusDraining
\* ------------------------------------------------------------------ C13
\* The latest Reconcile was for a WOL record that has an address and no
\* MAC, with desired state on.
NoMACWantedOn ==
  /\ Reconciled
  /\ last.desired = PowerStateOn
  /\ LastSpec.Type = ControlTypeWOL
  /\ LastSpec.Control.WOL.present
  /\ LastSpec.Control.WOL.Address # ""
  /\ LastSpec.Control.WOL.MACAddress = ""

\* C13 as stated: for a WOL record with an address and no MAC and desired
\* state on, every Reconcile that starts in a phase other than failed
\* returns a configuration error and never calls Wake.
C13_NoMACAlwaysErrors ==
  (NoMACWantedOn /\ last.before.Status # StatusFailed)
  => last.err # NoErr /\ last.calls = <<>>

\* The latest Reconcile got as far as the power-on dispatch: the streak
\* below the threshold, a phase that is classified, the probe unreachable.
ReachedPowerOn ==
  /\ last.before.Status \in {"", StatusOffline, StatusActive}
  /\ last.probed /\ ~last.reachable

\* C13: for a WOL record with an address and no MAC and desired state on,
\* no Reconcile calls Wake or any other capability; the Reconcile returns
\* the configuration error "WOL MAC address is required" and stores phase
\* failed exactly when it gets as far as the power-on dispatch (streak below
\* the threshold, phase unset, offline or active, probe unreachable), and
\* returns no error otherwise.
C13_NoMACErrorsAtDispatch ==
  NoMACWantedOn
  => /\ last.calls = <<>>
     /\ IF ReachedPowerOn
        THEN /\ last.err = <<"WOL MAC address is required">>
             /\ After.Status = StatusFailed
        ELSE last.err = NoErr

\* The configuration error returned from phase active.
C13_Witness ==
  /\ NoMACWantedOn
  /\ last.before.Status = StatusActive
  /\ ReachedPowerOn
  /\ last.err = <<"WOL MAC address is required">>
\* ------------------------------------------------------------------ C14
\* The record has no resolvable address: the block of its control type is
\* missing or has an empty address, or the control type is not a known one.
NoAddress ==
  ~ \/ /\ LastSpec.Type = ControlTypeWOL
       /\ LastSpec.Control.WOL.present
       /\ LastSpec.Control.WOL.Address # ""
    \/ /\ LastSpec.Type = ControlTypeIPMI
       /\ LastSpec.Control.IPMI.present
       /\ LastSpec.Control.IPMI.Address # ""

\* C14: a Reconcile of a record that is not failed, whose failureCount is
\* below the threshold and which has no resolvable address stores phase
\* failed with the message "No address configured for server", returns an
\* error with no requeue, asks no probe and calls no capability; the
\* failure streak is left as it was.
C14_NoAddressFails ==
  (/\ Reconciled
   /\ last.before.Status # StatusFailed
   /\ last.before.FailureCount < FailureThreshold
   /\ NoAddress)
  => /\ After.Status = StatusFailed
     /\ After.Message = <<"No address configured for server">>
     /\ After.FailureCount = last.before.FailureCount
     /\ After.FailingSince = last.before.FailingSince
     /\ last.err # NoErr
     /\ last.requeue = 0
     /\ ~last.probed
     /\ last.calls = <<>>

\* A pending record with a WOL block and an unknown control type, failed
\* for want of an address.
C14_Witness ==
  /\ Reconciled
  /\ last.before.Status = StatusPending
  /\ NoAddress
  /\ LastSpec.Control.WOL.present
  /\ LastSpec.Control.WOL.Address # ""
  /\ After.Status = StatusFailed
  /\ last.err # NoErr
\* ------------------------------------------------------------------ C15
\* The latest Reconcile got as far as the power-off dispatch.
ReachedPowerOff ==
  /\ last.before.Status \in {"", StatusOffline, StatusActive}
  /\ last.probed /\ last.reachable

\* The power action of the latest Reconcile failed: the backend returned an
\* error to the call made, or the record lacks what the action needs.
PowerActionFailed ==
  /\ Reconciled
  /\ \/ last.calls # <<>> /\ last.backend # NoErr
     \/ ReachedPowerOn /\ last.desired = PowerStateOn /\ ~PowerOnConfigured
     \/ ReachedPowerOff /\ last.desired \in {PowerStateOff, ""} /\ ~PowerOffConfigured

\* C15: when the power capability returns an error or validation fails in
\* the power-action step, Reconcile stores phase failed with the message
\* "Power action failed: " followed by the error, returns that error (the
\* backend's own when a call was made) with no requeue, and leaves
\* failureCount and failingSince as they were.
C15_PowerActionFailure ==
  PowerActionFailed
  => /\ last.err # NoErr
     /\ (last.calls # <<>> => last.err = last.backend)
     /\ (last.calls = <<>> => last.err \in {<<"WOL MAC address is required">>,
                                            <<"IPMI username and password are required">>})
     /\ After.Status = StatusFailed
     /\ After.Message = <<"Power action failed: ">> \o last.err
     /\ last.requeue = 0
     /\ After.FailureCount = last.before.FailureCount
     /\ After.FailingSince = last.before.FailingSince

\* A backend error met with a failure streak already recorded.
C15_Witness ==
  /\ Reconciled
  /\ last.calls # <<>>
  /\ last.backend = BackendErr
  /\ last.before.FailureCount > 0
  /\ last.before.FailingSince # NilTime
  /\ After.Status = StatusFailed
  /\ last.err = BackendErr
\* ------------------------------------------------------------------ C16
\* C16: a Reconcile returns a requeue after 60 seconds exactly when the
\* phase stored at its end is pending or draining, and no requeue at all in
\* every other case, the record not being found among them.
C16_RequeueIffInTransit ==
  last.op = "Reconcile"
  => /\ last.requeue \in {0, RequeueSeconds}
     /\ IF last.found
        THEN last.requeue = RequeueSeconds <=> After.Status \in {StatusPending, StatusDraining}
        ELSE last.requeue = 0

\* A record already draining that is still reachable: the requeue is asked
\* for again.
C16_Witness ==
  /\ Reconciled
  /\ last.before.Status = StatusDraining
  /\ After.Status = StatusDraining
  /\ last.reachable
  /\ last.requeue = RequeueSeconds
\* ------------------------------------------------------------------ C17
\* The latest handler was a Reconcile for a name the store does not hold.
ReconciledMissing == last.op = "Reconcile" /\ ~last.found

\* C17: a Reconcile for a name with no record returns no error and no
\* requeue, asks no probe, calls no capability, sends no status update and
\* leaves the store as it was.
C17_MissingRecordIsNoOp ==
  /\ [](ReconciledMissing
        => /\ last.err = NoErr
           /\ last.requeue = 0
           /\ ~last.probed
           /\ last.calls = <<>>
           /\ last.writes = <<>>)
  /\ [][(last'.op = "Reconcile" /\ ~last'.found) => store' = store]_vars

\* The request for the name no record has, after a record was reconciled.
C17_Witness ==
  /\ ReconciledMissing
  /\ last.id = "ghost"
  /\ last.id \notin DOMAIN store
  /\ \E m \in Machines : store[m].Status.Status # ""
\* ------------------------------------------------------------------ C18
\* The records whose desired state is ps in the store s.
Wanting(s, ps) == {m \in Machines : s[m].Spec.PowerState = ps}

\* The first n records of the set S in list order.
FirstOf(S, n) ==
  {m \in S : \E i \in 1..Len(Order) :
                /\ Order[i] = m
                /\ Cardinality({j \in 1..i : Order[j] \in S}) <= n}

\* The store s with the desired state of the records in S set to ps and
\* nothing else changed.
Flipped(s, S, ps) ==
  [m \in Machines |-> IF m \in S THEN [s[m] EXCEPT !.Spec.PowerState = ps] ELSE s[m]]

\* C18: NodeGroupIncreaseSize on the known pool with delta greater than the
\* number k of records whose desired state is off returns the error "could
\* not provision enough servers" (naming delta and k) and leaves exactly
\* those k records set to on; every other record, those already on among
\* them, is as it was.
C18_IncreaseShortfall ==
  [][(/\ last'.op = "NodeGroupIncreaseSize"
      /\ last'.id = defaultNodeGroupID
      /\ last'.delta > Cardinality(Wanting(store, PowerStateOff)))
     => /\ last'.err = <<"could not provision enough servers: requested ",
                         ToString(last'.delta), ", provisioned ",
                         ToString(Cardinality(Wanting(store, PowerStateOff)))>>
        /\ store' = Flipped(store, Wanting(store, PowerStateOff), PowerStateOn)
        /\ Wanting(store, PowerStateOn) \subseteq Wanting(store', PowerStateOn)]_vars

\* An increase by more than one that found a single record to turn on, next
\* to a record that was on already, and returned the error.
C18_Witness ==
  /\ last.op = "NodeGroupIncreaseSize"
  /\ last.id = defaultNodeGroupID
  /\ last.delta > 1
  /\ Len(last.updates) = 1
  /\ last.err # NoErr
  /\ \E m \in Machines : m # last.updates[1] /\ store[m].Spec.PowerState = PowerStateOn

\* ------------------------------------------------------------------ C19
\* C19: NodeGroupIncreaseSize on the known pool with 0 < delta <= k, k the
\* number of records whose desired state is off, returns no error and sets
\* to on exactly the first delta of those records in list order; every
\* other record is as it was, and the target size grows by delta.
C19_IncreaseExact ==
  [][(/\ last'.op = "NodeGroupIncreaseSize"
      /\ last'.id = defaultNodeGroupID
      /\ 0 < last'.delta
      /\ last'.delta <= Cardinality(Wanting(store, PowerStateOff)))
     => /\ last'.err = NoErr
        /\ store' = Flipped(store, FirstOf(Wanting(store, PowerStateOff), last'.delta),
                            PowerStateOn)
        /\ Cardinality(Wanting(store', PowerStateOn) \ Wanting(store, PowerStateOn)) = last'.delta
        /\ targetSize(store') = targetSize(store) + last'.delta]_vars

\* An increase by one that turned on the first record and left the second
\* one off.
C19_Witness ==
  /\ last.op = "NodeGroupIncreaseSize"
  /\ last.id = defaultNodeGroupID
  /\ last.delta = 1
  /\ last.err = NoErr
  /\ last.updates = <<Order[1]>>
  /\ store[Order[1]].Spec.PowerState = PowerStateOn
  /\ store[Order[2]].Spec.PowerState = PowerStateOff

\* ------------------------------------------------------------------ C20
\* The smaller of two numbers.
Min(a, b) == IF a < b THEN a ELSE b

\* C20: NodeGroupDecreaseTargetSize on the known pool with delta > 0 returns
\* no error and sets to off exactly min(delta, n) records, n the number of
\* records whose desired state is on (the first ones in list order); every
\* other record is as it was. With delta above n it still returns no error
\* and sets exactly those n records to off.
C20_DecreaseUpToDelta ==
  [][(/\ last'.op = "NodeGroupDecreaseTargetSize"
      /\ last'.id = defaultNodeGroupID
      /\ last'.delta > 0)
     => LET n == Cardinality(Wanting(store, PowerStateOn))
        IN /\ last'.err = NoErr
           /\ store' = Flipped(store, FirstOf(Wanting(store, PowerStateOn), last'.delta),
                               PowerStateOff)
           /\ Cardinality(Wanting(store, PowerStateOn) \ Wanting(store', PowerStateOn))
                = Min(last'.delta, n)
           /\ targetSize(store') = n - Min(last'.delta, n)]_vars

\* A decrease by more than the records that were on: it succeeded and
\* turned off the one there was.
C20_Witness ==
  /\ last.op = "NodeGroupDecreaseTargetSize"
  /\ last.id = defaultNodeGroupID
  /\ last.err = NoErr
  /\ Len(last.updates) = 1
  /\ last.delta > Len(last.updates)
  /\ Wanting(store, PowerStateOn) = {}
\* ------------------------------------------------------------------ C21
\* The names in a request's list of nodes.
Named(nodes) == {nodes[i] : i \in 1..Len(nodes)}

\* C21: NodeGroupDeleteNodes on the known pool with every named record in
\* the store returns no error, leaves every named record with desired state
\* off, whatever it was (on, off or unset), and every other record as it
\* was; the same request served again leaves the store as the first left
\* it.
C21_DeleteSetsOff ==
  [][(/\ last'.op = "NodeGroupDeleteNodes"
      /\ last'.id = defaultNodeGroupID
      /\ Named(last'.nodes) \subseteq Machines)
     => /\ last'.err = NoErr
        /\ store' = Flipped(store, Named(last'.nodes), PowerStateOff)
        /\ \A m \in Named(last'.nodes) : store'[m].Spec.PowerState = PowerStateOff
        /\ deleteLoop(store', last'.nodes).items = store'
        /\ deleteLoop(store', last'.nodes).err = NoErr]_vars

\* Both records named, one of them with a status the reconciler has
\* written: the request succeeded and both want off.
C21_Witness ==
  /\ last.op = "NodeGroupDeleteNodes"
  /\ last.id = defaultNodeGroupID
  /\ last.nodes = <<Order[2], Order[1]>>
  /\ last.err = NoErr
  /\ last.updates = last.nodes
  /\ store[Order[1]].Status.Status # ""
  /\ \A m \in Machines : store[m].Spec.PowerState = PowerStateOff

\* ------------------------------------------------------------------ C22
\* C22 as stated: NodeGroupDeleteNodes on the known pool with a named
\* member that is not in the store returns an error and leaves every record
\* as it was, those named earlier in the request among them.
C22_DeleteMissingChangesNothing ==
  [][(/\ last'.op = "NodeGroupDeleteNodes"
      /\ last'.id = defaultNodeGroupID
      /\ ~(Named(last'.nodes) \subseteq Machines))
     => /\ last'.err # NoErr
        /\ store' = store]_vars
\* ------------------------------------------------------------------ C23
\* The adapter calls that take a pool id.
PoolOps ==
  {"NodeGroupIncreaseSize", "NodeGroupDecreaseTargetSize", "NodeGroupDeleteNodes",
   "NodeGroupTargetSize", "NodeGroupNodes"}

\* C23: NodeGroupIncreaseSize, NodeGroupDecreaseTargetSize,
\* NodeGroupDeleteNodes, NodeGroupTargetSize and NodeGroupNodes called with
\* a pool id other than the fixed one return the error "unknown node group"
\* with no answer (no size, no instances), update no record and leave the
\* store as it was.
C23_UnknownPoolRejected ==
  /\ []((last.op \in PoolOps /\ last.id # defaultNodeGroupID)
        => /\ last.err = <<"unknown node group: ", last.id>>
           /\ last.updates = <<>>
           /\ last.size = 0
           /\ last.instances = <<>>)
  /\ [][(last'.op \in PoolOps /\ last'.id # defaultNodeGroupID) => store' = store]_vars

\* A decrease sent to another pool while a record wants on.
C23_Witness ==
  /\ last.op = "NodeGroupDecreaseTargetSize"
  /\ last.id = "other-pool"
  /\ last.delta > 0
  /\ last.err # NoErr
  /\ Wanting(store, PowerStateOn) # {}
\* ------------------------------------------------------------------ C24
\* C24: NodeGroupTargetSize on the known pool answers the number of records
\* whose desired state is on, and NodeGroups answers exactly one pool, with
\* the fixed id, minSize 0 and maxSize the number of records; so the target
\* size lies between minSize and maxSize, after whatever calls came before.
C24_TargetSizeWithinPool ==
  /\ (last.op = "NodeGroupTargetSize" /\ last.id = defaultNodeGroupID)
     => /\ last.err = NoErr
        /\ last.size = Cardinality(Wanting(store, PowerStateOn))
        /\ 0 <= last.size
        /\ last.size <= Cardinality(Machines)
  /\ last.op = "NodeGroups"
     => /\ last.err = NoErr
        /\ last.groups = <<[Id |-> "bare-metal-pool", MinSize |-> 0,
                            MaxSize |-> Cardinality(Machines)]>>
        /\ last.groups[1].MinSize <= targetSize(store)
        /\ targetSize(store) <= last.groups[1].MaxSize

\* The target size asked for while one record wants on and the other has
\* no desired state set.
C24_Witness ==
  /\ last.op = "NodeGroupTargetSize"
  /\ last.id = defaultNodeGroupID
  /\ last.size = 1
  /\ Wanting(store, "") # {}
\* ------------------------------------------------------------------ C25
\* The phases a record's status can carry.
Phases == {"", StatusPending, StatusActive, StatusOffline, StatusDraining, StatusFailed}

\* The store s with the phase of every record replaced by that of ph.
WithPhases(s, ph) == [m \in Machines |-> [s[m] EXCEPT !.Status.Status = ph[m]]]

\* C25: NodeGroupNodes on the known pool answers one entry per record, named
\* after it, whose state is running for desired state on, deleting for off
\* and unspecified for anything else; a store with the same specs and any
\* other phases gets the same answer.
C25_NodesFromDesiredStateOnly ==
  (last.op = "NodeGroupNodes" /\ last.id = defaultNodeGroupID)
  => /\ last.err = NoErr
     /\ Len(last.instances) = Cardinality(Machines)
     /\ \A m \in Machines :
          \E i \in 1..Len(last.instances) :
            /\ last.instances[i].Id = m
            /\ \A j \in 1..Len(last.instances) : last.instances[j].Id = m => j = i
            /\ last.instances[i].InstanceState =
                 CASE store[m].Spec.PowerState = "on" -> "instanceRunning"
                   [] store[m].Spec.PowerState = "off" -> "instanceDeleting"
                   [] OTHER -> "unspecified"
     /\ \A ph \in [Machines -> Phases] : instances(WithPhases(store, ph)) = last.instances

\* The members listed while a record is active with desired state off: it
\* is reported as deleting.
C25_Witness ==
  /\ last.op = "NodeGroupNodes"
  /\ last.id = defaultNodeGroupID
  /\ store[Order[1]].Status.Status = StatusActive
  /\ store[Order[1]].Spec.PowerState = PowerStateOff
  /\ last.instances[1] = [Id |-> Order[1], InstanceState |-> "instanceDeleting"]
\* ------------------------------------------------------------------ C26
\* The record the call served by p sends its next update for, "" when its
\* next step is not an update.
UpdateDue(p) ==
  LET c == rpc[p]
  IN IF c.pc = "update" THEN Head(c.nodes)
     ELSE IF c.pc = "loop" /\ c.i <= Len(Order) /\ c.count < c.delta
             /\ c.items[Order[c.i]].obj.Spec.PowerState =
                  (IF c.op = "NodeGroupIncreaseSize" THEN PowerStateOff ELSE PowerStateOn)
     THEN Order[c.i]
     ELSE ""

\* The record p is about to update has been written since p read it.
StaleUpdateDue(p) ==
  /\ UpdateDue(p) # ""
  /\ version[UpdateDue(p)] # rpc[p].items[UpdateDue(p)].ver

\* The error ends with the store's conflict.
IsConflict(err) == Len(err) > 0 /\ <<err[Len(err)]>> = Conflict

\* C26: when the store answers an update of NodeGroupIncreaseSize,
\* NodeGroupDecreaseTargetSize or NodeGroupDeleteNodes with a conflict, the
\* call returns that error in the same step, with the store as it was (the
\* records it had flipped stay flipped, the update is not sent again), and a
\* call that has returned takes no further step, so the remaining records
\* are not attempted.
C26_UpdateFailureReturnsAtOnce ==
  [][\A p \in Goroutines :
       /\ (StaleUpdateDue(p) /\ rpc'[p] # rpc[p])
          => /\ rpc'[p].pc = "done"
             /\ IsConflict(rpc'[p].err)
             /\ rpc'[p].flips = rpc[p].flips
             /\ rpc'[p].count = rpc[p].count
             /\ store' = store
       /\ rpc[p].pc = "done" => rpc'[p] = rpc[p]]_vars

\* A delete of both records that set the first to off and was answered with
\* a conflict for the second.
C26_Witness ==
  /\ rpc["g1"].op = "NodeGroupDeleteNodes"
  /\ rpc["g1"].pc = "done"
  /\ IsConflict(rpc["g1"].err)
  /\ rpc["g1"].flips = <<Order[1]>>
  /\ rpc["g1"].nodes = <<Order[2]>>
  /\ store[Order[1]].Spec.PowerState = PowerStateOff

\* ------------------------------------------------------------------ C27
\* The updates the calls of kind op have counted as done.
Counted(op) ==
  LET f(p) == IF rpc[p].op = op THEN rpc[p].count ELSE 0
  IN f("g1") + f("g2")

\* The step is an update that the increase or decrease served by p counts.
CountsUpdate(p) ==
  /\ rpc[p].op \in {"NodeGroupIncreaseSize", "NodeGroupDecreaseTargetSize"}
  /\ rpc'[p].count = rpc[p].count + 1

\* C27: with increases and decreases interleaved against a store that
\* answers stale updates with a conflict, every update a call counts is a
\* flip of a record that was still as the call listed it (off to on for an
\* increase, on to off for a decrease) and changes that record alone; an
\* increase by delta that returned no error has flipped exactly delta
\* distinct records; and the target size is the one at the start plus the
\* updates counted by increases minus those counted by decreases (and
\* minus the records a delete turned from on to off).
C27_EveryCountedUpdateIsAFlip ==
  /\ [][\A p \in Goroutines :
          CountsUpdate(p)
          => LET m == Order[rpc[p].i]
                 inc == rpc[p].op = "NodeGroupIncreaseSize"
             IN /\ store[m] = rpc[p].items[m].obj
                /\ store[m].Spec.PowerState = (IF inc THEN PowerStateOff ELSE PowerStateOn)
                /\ store'[m].Spec.PowerState = (IF inc THEN PowerStateOn ELSE PowerStateOff)
                /\ \A x \in Machines \ {m} : store'[x] = store[x]]_vars
  /\ [](\A p \in Goroutines :
          (rpc[p].op = "NodeGroupIncreaseSize" /\ rpc[p].pc = "done" /\ rpc[p].err = NoErr)
          => /\ rpc[p].count = rpc[p].delta
             /\ Len(rpc[p].flips) = rpc[p].delta
             /\ Cardinality(Named(rpc[p].flips)) = rpc[p].delta)
  /\ [](targetSize(store) = tally.initial + Counted("NodeGroupIncreaseSize")
                             - Counted("NodeGroupDecreaseTargetSize") - tally.deleted)

\* Two increases by one that listed the same record off: one flipped it,
\* the other was answered with a conflict.
C27_Witness ==
  /\ rpc["g1"].op = "NodeGroupIncreaseSize" /\ rpc["g1"].pc = "done"
  /\ rpc["g2"].op = "NodeGroupIncreaseSize" /\ rpc["g2"].pc = "done"
  /\ rpc["g1"].delta = 1 /\ rpc["g2"].delta = 1
  /\ rpc["g1"].err = NoErr /\ rpc["g1"].flips = <<Order[1]>>
  /\ IsConflict(rpc["g2"].err) /\ rpc["g2"].flips = <<>>
\* ------------------------------------------------------------------ C28
\* The latest Reconcile has returned and no other has started.
Returned == eng.pc = "idle" /\ eng.n > 0 /\ Reconciled

\* C28 as stated: a Reconcile one of whose status updates the store
\* answered with a conflict returns an error.
C28_RejectedWriteReturnsError ==
  (Returned /\ eng.rejected > 0) => last.err # NoErr

\* ------------------------------------------------------------------ C29
\* C29 as stated: after a Reconcile whose power call succeeded the stored
\* phase of the record is pending (power-on) or draining (power-off) and the
\* stored message is empty, whatever the adapter wrote in between.
C29_PhaseStoredAfterPowerCall ==
  (Returned /\ last.calls # <<>> /\ last.backend = NoErr)
  => /\ After.Status = (IF last.calls[1].fn \in {"Wake", "PowerOn"}
                        THEN StatusPending ELSE StatusDraining)
     /\ After.Message = <<>>
\* ------------------------------------------------------------------ C30
\* The phase of the first record is the one its desired state asks for.
Converged ==
  store[EngineName].Status.Status =
    (IF store[EngineName].Spec.PowerState = PowerStateOn THEN StatusActive ELSE StatusOffline)

C31_BackendFailureIsTransient ==
  (Reconciled /\ last.calls # <<>> /\ last.backend # NoErr)
  => /\ After.Status # StatusFailed
     /\ After.FailureCount = last.before.FailureCount + 1
     /\ After.FailingSince # NilTime
     /\ last.requeue = RequeueSeconds

\* ------------------------------------------------------------------ C32
\* C32: after any Reconcile that moves a record to phase failed, by
\* whichever path, status.message is non-empty.
C32_FailedCarriesMessage ==
  (Reconciled /\ last.before.Status # StatusFailed /\ After.Status = StatusFailed)
  => After.Message # <<>>

\* ------------------------------------------------------------------ C33
\* The latest Reconcile read phase active and got the answer unreachable
\* from the probe.
LossDetected ==
  /\ Reconciled
  /\ last.before.Status = StatusActive
  /\ last.probed /\ ~last.reachable

C34_ShutdownWhateverProbe ==
  (/\ Reconciled
   /\ last.before.Status = StatusActive
   /\ last.probed
   /\ last.desired = PowerStateOff
   /\ PowerOffConfigured)
  => /\ last.calls = <<PowerOffCall>>
     /\ last.backend = NoErr => last.err = NoErr

\* ------------------------------------------------------------------ C35
\* The latest Reconcile read a phase that matches the desired state: active
\* with on, or offline with off.
AlreadyMatching ==
  /\ Reconciled
  /\ last.probed
  /\ \/ last.before.Status = StatusActive /\ last.desired = PowerStateOn
     \/ last.before.Status = StatusOffline /\ last.desired = PowerStateOff

\* C35: a Reconcile that reads a phase matching the desired state returns
\* no error and calls neither the power-on nor the power-off capability,
\* whatever the probe answers.
C35_MatchingMakesNoCall ==
  AlreadyMatching => last.err = NoErr /\ last.calls = <<>>

\* ------------------------------------------------------------------ C36
\* The latest Reconcile read phase offline or unset and got the answer
\* reachable from the probe.
FoundUp ==
  /\ Reconciled
  /\ last.before.Status \in {StatusOffline, ""}
  /\ last.probed /\ last.reachable

\* C36: a record in phase offline or unset whose probe reports reachable is
\* first stored as active. With the desired state on that is all; with the
\* desired state off the same Reconcile calls the power-off capability of a
\* configured record and, the call succeeding, stores draining and returns
\* the 60-second requeue.
C36_FoundUpIsShutDown ==
  FoundUp
  => /\ Len(last.writes) >= 1
     /\ last.writes[1].Status = StatusActive
     /\ last.desired = PowerStateOn
        => Len(last.writes) = 1 /\ After.Status = StatusActive /\ last.calls = <<>>
     /\ (last.desired \in {PowerStateOff, ""} /\ PowerOffConfigured)
        => /\ last.calls = <<PowerOffCall>>
           /\ last.backend = NoErr
              => /\ Chain = <<last.before.Status, StatusActive, StatusDraining>>
                 /\ After.Status = StatusDraining
                 /\ last.err = NoErr
                 /\ last.requeue = RequeueSeconds

C36_Witness ==
  /\ FoundUp
  /\ last.before.Status = StatusOffline
  /\ last.desired = PowerStateOff
  /\ last.calls = <<PowerOffCall>>
  /\ After.Status = StatusDraining
  /\ last.requeue = RequeueSeconds

\* ------------------------------------------------------------------ C37
\* The latest Reconcile read phase pending or draining.
InTransit ==
  /\ Reconciled
  /\ last.before.Status \in {StatusPending, StatusDraining}

\* C37: a Reconcile that reads phase pending or draining calls no power
\* capability, whatever the desired state: it leaves the phase as it was,
\* or stores the phase the transition was heading for (active after
\* pending, offline after draining), or stores failed.
C37_NoCallInTransit ==
  InTransit
  => /\ last.calls = <<>>
     /\ After.Status \in {last.before.Status, StatusFailed,
                          IF last.before.Status = StatusPending
                          THEN StatusActive ELSE StatusOffline}

C37_Witness ==
  /\ InTransit
  /\ last.before.Status = StatusPending
  /\ last.desired = PowerStateOff
  /\ last.probed /\ last.reachable
  /\ After.Status = StatusActive
  /\ last.calls = <<>>

\* ------------------------------------------------------------------ C38
\* The latest Reconcile read a transition that the probe shows unfinished:
\* pending with the machine unreachable, or draining with it reachable.
Unfinished ==
  /\ InTransit
  /\ last.probed
  /\ last.reachable = (last.before.Status = StatusDraining)

\* C38: the failure streak does not look at the desired state. A Reconcile
\* that reads pending with the machine unreachable, or draining with the
\* machine reachable, adds one to failureCount and keeps the phase, also
\* when the desired state by now agrees with the probe answer; and a
\* Reconcile that reads pending or draining with failureCount at the
\* threshold stores failed without asking the probe.
C38_EscalationIgnoresDesired ==
  /\ Unfinished
     => /\ After.Status = last.before.Status
        /\ After.FailureCount = last.before.FailureCount + 1
        /\ last.requeue = RequeueSeconds
  /\ (InTransit /\ last.before.FailureCount >= FailureThreshold)
     => After.Status = StatusFailed /\ ~last.probed /\ last.calls = <<>>

C38_Witness ==
  /\ InTransit
  /\ last.before.Status = StatusDraining
  /\ last.before.FailureCount = FailureThreshold
  /\ last.desired = PowerStateOn
  /\ After.Status = StatusFailed

\* ------------------------------------------------------------------ C39
\* C39: starting from failureCount 0, failureCount stays between 0 and the
\* threshold in every record; a Reconcile raises it only by one and only
\* when it read it below the threshold, and a Reconcile that reads it at
\* or above the threshold on a record not yet failed stores failed and
\* leaves the count as it was.
C39_CountWithinThreshold ==
  /\ \A m \in DOMAIN store : store[m].Status.FailureCount \in 0..FailureThreshold
  /\ Reconciled
     => /\ After.FailureCount > last.before.FailureCount
           => /\ last.before.FailureCount < FailureThreshold
              /\ After.FailureCount = last.before.FailureCount + 1
        /\ (last.before.FailureCount >= FailureThreshold
            /\ last.before.Status # StatusFailed)
           => /\ After.Status = StatusFailed
              /\ After.FailureCount = last.before.FailureCount

C39_Witness ==
  /\ Reconciled
  /\ last.before.Status # StatusFailed
  /\ last.before.FailureCount = FailureThreshold
  /\ After.Status = StatusFailed
  /\ After.FailureCount = FailureThreshold

\* ------------------------------------------------------------------ C40
\* C40: starting from a fresh record, in every record failingSince is set
\* exactly when failureCount is above 0, and failureCount is above 0 only
\* in phase pending, draining or failed.
C40_StreakFieldsAgree ==
  \A m \in DOMAIN store :
     LET s == store[m].Status
     IN /\ (s.FailingSince # NilTime) <=> (s.FailureCount > 0)
        /\ s.FailureCount > 0
           => s.Status \in {StatusPending, StatusDraining, StatusFailed}

\* A streak was started and then cleared by the arrival of the record.
C40_Witness ==
  /\ Reconciled
  /\ last.before.FailureCount > 0
  /\ last.before.FailingSince # NilTime
  /\ After.Status \in {StatusActive, StatusOffline}
  /\ After.FailureCount = 0
  /\ After.FailingSince = NilTime
====
